---- MODULE Spec2Model ----
(***************************************************************************)
(* Model of logwarts: the access-log ingestion pipeline (ParseLogs,        *)
(* logWorker, parseLogLine, getReader and the filter constructors of       *)
(* logwarts.go) and its sequential predecessor.                            *)
(*                                                                         *)
(* A line is a sequence of symbols.  Space and Quote are the two symbols   *)
(* the tokenizer pattern of parseLogLine tells apart; every other symbol   *)
(* stands for a non-empty run of characters that are neither whitespace    *)
(* nor a double quote.  A string is a sequence of symbols, the empty      *)
(* string is << >>.                                                        *)
(***************************************************************************)
EXTENDS Integers, Sequences, FiniteSets, Bags, TLC

\* ------------------------------------------------------------------ bounds
MaxLines == 2
MaxWorkers == 2
MaxSessions == 2
MaxCols == 3
MaxTermWidth == 12
MaxWrapLines == 4
MaxFiles == 2
BPExtraLines == 1
BPSinkReturns == 1

\* ------------------------------------------------------- program constants
LineChanCap == 100
EntryChanCap == 100
MinFields == 25
MaxNameLen == 63
TermMargin == 5
ColPadding == 3
FallbackWidth == 80

\* ---------------------------------------------------------------- symbols
Space == " "
Quote == "\""

\* the class of non-space symbols of the pattern (a quote is one of them)
IsNonSpace(c) == c # Space

\* ------------------------------------------------------------ parseLogLine
\* index of the first Quote at or after position i, 0 when there is none
RECURSIVE NextQuote(_, _)
NextQuote(line, i) ==
    IF i > Len(line) THEN 0
    ELSE IF line[i] = Quote THEN i
    ELSE NextQuote(line, i + 1)

\* last index of the maximal run of non-space symbols that starts at i
RECURSIVE RunEnd(_, _)
RunEnd(line, i) ==
    IF i + 1 <= Len(line) /\ IsNonSpace(line[i + 1]) THEN RunEnd(line, i + 1)
    ELSE i

\* regex.FindAllStringSubmatch(line, -1) from position i on: the sequence of
\* matches, each with its two groups; the quoted alternative is tried first
RECURSIVE FindAllStringSubmatch(_, _)
FindAllStringSubmatch(line, i) ==
    IF i > Len(line) THEN << >>
    ELSE IF line[i] = Quote /\ NextQuote(line, i + 1) # 0
         THEN LET j == NextQuote(line, i + 1)
              IN  << [g1 |-> SubSeq(line, i + 1, j - 1), g2 |-> << >>] >>
                  \o FindAllStringSubmatch(line, j + 1)
    ELSE IF IsNonSpace(line[i])
         THEN LET e == RunEnd(line, i)
              IN  << [g1 |-> << >>, g2 |-> SubSeq(line, i, e)] >>
                  \o FindAllStringSubmatch(line, e + 1)
    ELSE FindAllStringSubmatch(line, i + 1)

\* variant: a quoted token keeps its quotes (the whole match is taken)
parseLogLineWholeMatch(line) ==
    LET matches == FindAllStringSubmatch(line, 1)
    IN  [k \in 1..Len(matches) |->
            IF matches[k].g2 # << >> THEN matches[k].g2
            ELSE <<Quote>> \o matches[k].g1 \o <<Quote>>]

\* a field is the first group of its match unless that is empty, then the
\* second group
parseLogLine(line) ==
    LET matches == FindAllStringSubmatch(line, 1)
    IN  [k \in 1..Len(matches) |->
            IF matches[k].g1 # << >> THEN matches[k].g1 ELSE matches[k].g2]

\* strings.Trim with cutset Quote: leading and trailing quotes removed
RECURSIVE TrimLeft(_)
TrimLeft(s) == IF s # << >> /\ Head(s) = Quote THEN TrimLeft(Tail(s)) ELSE s

RECURSIVE TrimRight(_)
TrimRight(s) ==
    IF s # << >> /\ s[Len(s)] = Quote THEN TrimRight(SubSeq(s, 1, Len(s) - 1))
    ELSE s

Trim(s) == TrimRight(TrimLeft(s))

\* -------------------------------------------------------------- time.Parse
\* The timestamps the model knows, with the instant each denotes; every
\* other token fails to parse.  Instant 0 is the zero time.Time.
ValidTimes ==
    << [tok |-> <<"2018-11-30T22:23:00.000000Z">>, at |-> 2],
       [tok |-> <<"2018-11-30T22:24:00.000000Z">>, at |-> 3],
       [tok |-> <<"2018-11-30T22:22:59.000000Z">>, at |-> 1] >>

TimeParseOk(tok) == \E k \in 1..Len(ValidTimes) : ValidTimes[k].tok = tok

TimeParse(tok) ==
    LET k == CHOOSE k \in 1..Len(ValidTimes) : ValidTimes[k].tok = tok
    IN  ValidTimes[k].at

\* ------------------------------------------------------- strconv.ParseFloat
\* The numbers the model knows, in thousandths; every other token fails to
\* parse.  All of them are exact at the precision the filter compares at.
FloatValues ==
    << [tok |-> <<"0.001">>, val |-> 1],
       [tok |-> <<"0.002">>, val |-> 2],
       [tok |-> <<"0.003">>, val |-> 3],
       [tok |-> <<"-1">>, val |-> -1000] >>

ParseFloatOk(tok) == \E k \in 1..Len(FloatValues) : FloatValues[k].tok = tok

ParseFloat(tok) ==
    LET k == CHOOSE k \in 1..Len(FloatValues) : FloatValues[k].tok = tok
    IN  FloatValues[k].val

\* ------------------------------------------------------------ record mapper
\* fields[i] of the Go slice (0-based); only used where i is in range
At(fields, i) == fields[i + 1]

\* the index expression fields[i] panics unless i < len(fields)
InRange(fields, i) == i < Len(fields)

NoTail ==
    [TargetPortList |-> << >>, TargetStatusCodeList |-> << >>,
     Classification |-> << >>, ClassficationReason |-> << >>]

\* the tail assignments: the fields they set, or a panic when an index is
\* out of range
TailFields(fields) ==
    IF Len(fields) > 25
    THEN IF ~InRange(fields, 25) \/ ~InRange(fields, 26)
         THEN [panic |-> TRUE, tail |-> NoTail]
         ELSE [panic |-> FALSE,
               tail |->
                 [TargetPortList |-> At(fields, 25),
                  TargetStatusCodeList |-> At(fields, 26),
                  Classification |->
                      IF Len(fields) > 27 THEN At(fields, 27) ELSE << >>,
                  ClassficationReason |->
                      IF Len(fields) > 27 /\ Len(fields) > 28
                      THEN At(fields, 28) ELSE << >>]]
    ELSE [panic |-> FALSE, tail |-> NoTail]

\* the &LogEntry{...} literal followed by the tail assignments
LogEntry(fields) ==
    [Type |-> At(fields, 0),
     Timestamp |-> TimeParse(At(fields, 1)),
     ELB |-> At(fields, 2),
     Client |-> At(fields, 3),
     Target |-> At(fields, 4),
     RequestProcessingTime |-> At(fields, 5),
     TargetProcessingTime |-> At(fields, 6),
     ResponseProcessingTime |-> At(fields, 7),
     ELBStatusCode |-> At(fields, 8),
     TargetStatusCode |-> At(fields, 9),
     ReceivedBytes |-> At(fields, 10),
     SentBytes |-> At(fields, 11),
     Request |-> Trim(At(fields, 12)),
     UserAgent |-> Trim(At(fields, 13)),
     SSLConnectionCipher |-> At(fields, 14),
     SSLProtocol |-> At(fields, 15),
     TargetGroupArn |-> At(fields, 16),
     TraceID |-> At(fields, 17),
     DomainName |-> At(fields, 18),
     ChosenCertArn |-> At(fields, 19),
     MatchedRulePriority |-> At(fields, 20),
     RequestCreationTime |-> At(fields, 21),
     ActionsExecuted |-> At(fields, 22),
     RedirectURL |-> At(fields, 23),
     LambdaErrorReason |-> At(fields, 24),
     TargetPortList |-> TailFields(fields).tail.TargetPortList,
     TargetStatusCodeList |-> TailFields(fields).tail.TargetStatusCodeList,
     Classification |-> TailFields(fields).tail.Classification,
     ClassficationReason |-> TailFields(fields).tail.ClassficationReason]

\* ------------------------------------------------------------ filter chain
\* regexp.MatchString for the patterns the model uses: ".*" matches every
\* string, any other pattern is a literal symbol found anywhere in the string
MatchString(regex, s) ==
    regex = ".*" \/ \E i \in 1..Len(s) : s[i] = regex

FilterByTime(start, end) == [fn |-> "FilterByTime", start |-> start, end |-> end]
FilterByURL(regex) == [fn |-> "FilterByURL", regex |-> regex]
FilterByUserAgent(regex) == [fn |-> "FilterByUserAgent", regex |-> regex]
\* variant: the ELB status filter compares the target status code
FilterByELBStatusCodeOnTarget(statusCode) ==
    [fn |-> "FilterByTargetStatusCode", statusCode |-> statusCode]

FilterByELBStatusCode(statusCode) ==
    [fn |-> "FilterByELBStatusCode", statusCode |-> statusCode]
FilterByTargetStatusCode(statusCode) ==
    [fn |-> "FilterByTargetStatusCode", statusCode |-> statusCode]
FilterByTargetProcessingTime(processingTime) ==
    [fn |-> "FilterByTargetProcessingTime", processingTime |-> processingTime]

\* variant: a field that does not parse lets the record through
PassesProcessingTimeFailOpen(processingTime, entry) ==
    IF ~ParseFloatOk(entry.TargetProcessingTime) THEN TRUE
    ELSE ParseFloat(entry.TargetProcessingTime) >= processingTime

\* the closure of FilterByTargetProcessingTime: false when the field does not
\* parse, else the comparison with the threshold
PassesProcessingTime(processingTime, entry) ==
    IF ~ParseFloatOk(entry.TargetProcessingTime) THEN FALSE
    ELSE ParseFloat(entry.TargetProcessingTime) >= processingTime

\* variant: the bounds of the time range are exclusive
ApplyFilterExclusive(f, entry) ==
    CASE f.fn = "FilterByTime" ->
            /\ ~(f.start # 0 /\ entry.Timestamp <= f.start)
            /\ ~(f.end # 0 /\ entry.Timestamp >= f.end)
      [] f.fn = "FilterByURL" -> MatchString(f.regex, entry.Request)
      [] f.fn = "FilterByUserAgent" -> MatchString(f.regex, entry.UserAgent)
      [] f.fn = "FilterByELBStatusCode" -> entry.ELBStatusCode = f.statusCode
      [] f.fn = "FilterByTargetStatusCode" ->
            entry.TargetStatusCode = f.statusCode
      [] f.fn = "FilterByTargetProcessingTime" ->
            PassesProcessingTime(f.processingTime, entry)

\* the closure a filter constructor returned, applied to an entry
ApplyFilter(f, entry) ==
    CASE f.fn = "FilterByTime" ->
            /\ ~(f.start # 0 /\ entry.Timestamp < f.start)
            /\ ~(f.end # 0 /\ entry.Timestamp > f.end)
      [] f.fn = "FilterByURL" -> MatchString(f.regex, entry.Request)
      [] f.fn = "FilterByUserAgent" -> MatchString(f.regex, entry.UserAgent)
      [] f.fn = "FilterByELBStatusCode" -> entry.ELBStatusCode = f.statusCode
      [] f.fn = "FilterByTargetStatusCode" ->
            entry.TargetStatusCode = f.statusCode
      [] f.fn = "FilterByTargetProcessingTime" ->
            PassesProcessingTime(f.processingTime, entry)

\* variant: the loop does not break, the last filter decides
RunFiltersLastWins(entry, fs, k) ==
    IF fs = << >> THEN [include |-> TRUE, invoked |-> 0, order |-> << >>]
    ELSE [include |-> ApplyFilter(fs[Len(fs)], entry), invoked |-> Len(fs),
          order |-> [i \in 1..Len(fs) |-> i]]

\* the include loop: filters are applied in list order from the k-th on and
\* the loop breaks at the first one that returns false; order lists the
\* indexes of the filters applied, in the order of their application
RECURSIVE RunFilters(_, _, _)
RunFilters(entry, fs, k) ==
    IF k > Len(fs) THEN [include |-> TRUE, invoked |-> k - 1, order |-> << >>]
    ELSE IF ~ApplyFilter(fs[k], entry)
    THEN [include |-> FALSE, invoked |-> k, order |-> <<k>>]
    ELSE LET rest == RunFilters(entry, fs, k + 1)
         IN  [include |-> rest.include, invoked |-> rest.invoked,
              order |-> <<k>> \o rest.order]

\* variant: the entry is handed on whatever the filters said
ProcessLineUnfiltered(line, fs) ==
    LET fields == parseLogLine(line)
    IN  IF Len(fields) >= MinFields
        THEN IF ~TimeParseOk(At(fields, 1))
             THEN [kind |-> "drop", fields |-> fields, invoked |-> 0,
                   order |-> << >>]
             ELSE IF TailFields(fields).panic
             THEN [kind |-> "panic", fields |-> fields, invoked |-> 0,
                   order |-> << >>]
             ELSE [kind |-> "entry", fields |-> fields,
                   invoked |-> RunFilters(LogEntry(fields), fs, 1).invoked,
                   order |-> RunFilters(LogEntry(fields), fs, 1).order]
        ELSE [kind |-> "drop", fields |-> fields, invoked |-> 0,
                   order |-> << >>]

\* what the loop body does with one line once it is read: "drop" (too few
\* fields, bad timestamp or a filter said no), "entry" (a record to hand
\* on) or "panic" (index out of range)
ProcessLine(line, fs) ==
    LET fields == parseLogLine(line)
    IN  IF Len(fields) >= MinFields
        THEN IF ~TimeParseOk(At(fields, 1))
             THEN [kind |-> "drop", fields |-> fields, invoked |-> 0,
                   order |-> << >>]
             ELSE IF TailFields(fields).panic
             THEN [kind |-> "panic", fields |-> fields, invoked |-> 0,
                   order |-> << >>]
             ELSE LET run == RunFilters(LogEntry(fields), fs, 1)
                  IN  IF run.include
                      THEN [kind |-> "entry", fields |-> fields,
                            invoked |-> run.invoked, order |-> run.order]
                      ELSE [kind |-> "drop", fields |-> fields,
                            invoked |-> run.invoked, order |-> run.order]
        ELSE [kind |-> "drop", fields |-> fields, invoked |-> 0,
                   order |-> << >>]

\* ---------------------------------------------------------------- the lines
\* words joined by single spaces
RECURSIVE Join(_)
Join(words) ==
    IF words = << >> THEN << >>
    ELSE IF Len(words) = 1 THEN words[1]
    ELSE words[1] \o <<Space>> \o Join(Tail(words))

Word(sym) == <<sym>>

\* the 25 words of the scenario line, with the given timestamp and ELB status
BaseWords(ts, elbStatus) ==
    << Word("http"), Word(ts), Word("myelb"), Word("1.2.3.4:80"),
       Word("5.6.7.8:8080"), Word("0.001"), Word("0.002"), Word("0.003"),
       Word(elbStatus), Word("200"), Word("100"), Word("200"),
       <<Quote, "GET", Space, "/", Space, "HTTP/1.1", Quote>>,
       <<Quote, "curl/7.0", Quote>>,
       Word("-"), Word("-"), Word("arn1"), Word("trace1"), Word("-"),
       Word("-"), Word("-"), Word("2018-11-30T22:22:59.000000Z"), Word("-"),
       Word("-"), Word("-") >>

TailWords == << Word("80"), Word("200"), Word("class"), Word("reason") >>

GoodTs == "2018-11-30T22:23:00.000000Z"

\* the words with the i-th one (counted from 0) replaced
WithWord(words, i, w) == [words EXCEPT ![i + 1] = w]

LineKinds ==
    {"ok25", "ok25_404", "short20", "badts25", "tail26", "tail27", "tail28",
     "tail29", "oddquote", "gzraw", "tpt_dash", "tpt_neg", "emptyua"}

\* the text of each kind of line
LineText(kind) ==
    CASE kind = "ok25" -> Join(BaseWords(GoodTs, "200"))
      [] kind = "ok25_404" -> Join(BaseWords(GoodTs, "404"))
      [] kind = "short20" -> Join(SubSeq(BaseWords(GoodTs, "200"), 1, 20))
      [] kind = "badts25" -> Join(BaseWords("yesterday", "200"))
      [] kind = "tail26" ->
            Join(BaseWords(GoodTs, "200") \o SubSeq(TailWords, 1, 1))
      [] kind = "tail27" ->
            Join(BaseWords(GoodTs, "200") \o SubSeq(TailWords, 1, 2))
      [] kind = "tail28" ->
            Join(BaseWords(GoodTs, "200") \o SubSeq(TailWords, 1, 3))
      [] kind = "tail29" -> Join(BaseWords(GoodTs, "200") \o TailWords)
      [] kind = "oddquote" ->
            Join(SubSeq(BaseWords(GoodTs, "200"), 1, 13)
                 \o << <<Quote, "curl/7.0">> >>
                 \o SubSeq(BaseWords(GoodTs, "200"), 15, 25))
      [] kind = "gzraw" -> <<"gzip-magic-1f8b", "deflate-bytes">>
      [] kind = "tpt_dash" ->
            Join(WithWord(BaseWords(GoodTs, "200"), 6, Word("-")))
      [] kind = "tpt_neg" ->
            Join(WithWord(BaseWords(GoodTs, "200"), 6, Word("-1")))
      [] kind = "emptyua" ->
            Join(WithWord(BaseWords(GoodTs, "200"), 13, <<Quote, Quote>>))

\* what is left of the first symbol of a line behind its first two bytes;
\* every line a plain file of the model holds starts with the symbol http
AfterTwoBytes(sym) == IF sym = "http" THEN "tp" ELSE ""

\* the kind of a line read without its first two bytes
CutKind(kind) == "cut:" \o kind

CutKinds == {CutKind(k) : k \in LineKinds \ {"gzraw"}}

\* every kind of line a reader can hand to the scanner
ReadKinds == LineKinds \cup CutKinds

\* the text of a line as the scanner sees it
ReadText(kind) ==
    IF kind \in LineKinds THEN LineText(kind)
    ELSE LET whole == LineText(CHOOSE k \in LineKinds : CutKind(k) = kind)
         IN  <<AfterTwoBytes(Head(whole))>> \o Tail(whole)

\* ---------------------------------------------------------------- the files
\* A file: whether os.Open succeeds, whether its bytes are a gzip stream,
\* the lines of its (decompressed) content, and whether and where reading
\* it fails: "io" a read error of the file, "toolong" a line beyond the
\* scanner's token limit, "corrupt" damaged deflate data, "header" a
\* damaged gzip header; failAfter lines are read intact before the failure.
PipeKinds == {"ok25", "ok25_404", "short20", "tail26"}

LineSeqs(n) ==
    UNION {[1..k -> PipeKinds] : k \in 0..n}
    \cup {<<k>> : k \in LineKinds \ {"gzraw"}}
    \cup {<<"badts25", "ok25">>}

NoFile(o) ==
    [open |-> o, gz |-> FALSE, lines |-> << >>, fail |-> "none", failAfter |-> 0]

Files ==
    {NoFile("notexist"), NoFile("denied")}
    \cup {[open |-> "ok", gz |-> g, lines |-> ls, fail |-> "none", failAfter |-> 0] :
             g \in BOOLEAN, ls \in LineSeqs(MaxLines)}
    \cup {f \in [open : {"ok"}, gz : BOOLEAN, lines : LineSeqs(MaxLines),
                 fail : {"io", "toolong", "corrupt", "header"},
                 failAfter : 0..MaxLines] :
             /\ f.failAfter < Len(f.lines)
             /\ f.fail \in {"corrupt", "header"} => f.gz
             /\ f.fail = "header" => f.failAfter = 0}

FilterLists ==
    { << >>,
      << FilterByELBStatusCode(<<"200">>) >>,
      << FilterByURL(".*"), FilterByELBStatusCode(<<"200">>) >> }

\* ---------------------------------------------------------- the command line
\* The filter flags of main and its limit flag.  The empty string (<< >>,
\* or "" for a pattern) is the default of a flag that was not given.
NoFlags ==
    [start |-> << >>, end |-> << >>, url |-> "", ua |-> "", elb |-> << >>,
     target |-> << >>, tpt |-> << >>, limit |-> 0]

\* regexp.Compile for the patterns the model uses: only "(" fails to compile
RegexpCompileOk(p) == p # "("

CliFlagSets ==
    { NoFlags,
      [NoFlags EXCEPT !.limit = 1],
      [NoFlags EXCEPT !.url = ".*", !.elb = <<"200">>],
      [NoFlags EXCEPT !.start = <<GoodTs>>, !.tpt = <<"0.002">>],
      [NoFlags EXCEPT !.ua = "curl/7.0", !.target = <<"200">>],
      [NoFlags EXCEPT !.start = <<"yesterday">>],
      [NoFlags EXCEPT !.start = <<GoodTs>>, !.end = <<"yesterday">>],
      [NoFlags EXCEPT !.url = "("],
      [NoFlags EXCEPT !.url = ".*", !.ua = "("],
      [NoFlags EXCEPT !.elb = <<"200">>, !.tpt = <<"fast">>] }

\* variant: a filter input that is not valid is skipped and the run goes on
CliFiltersLenient(fl) ==
    [exit |-> FALSE,
     filters |->
        (IF (fl.start # << >> \/ fl.end # << >>)
            /\ (fl.start # << >> => TimeParseOk(fl.start))
            /\ (fl.end # << >> => TimeParseOk(fl.end))
         THEN << FilterByTime(IF fl.start # << >> THEN TimeParse(fl.start) ELSE 0,
                              IF fl.end # << >> THEN TimeParse(fl.end) ELSE 0) >>
         ELSE << >>)
        \o (IF fl.url # "" /\ RegexpCompileOk(fl.url)
            THEN << FilterByURL(fl.url) >> ELSE << >>)
        \o (IF fl.ua # "" /\ RegexpCompileOk(fl.ua)
            THEN << FilterByUserAgent(fl.ua) >> ELSE << >>)
        \o (IF fl.elb # << >> THEN << FilterByELBStatusCode(fl.elb) >> ELSE << >>)
        \o (IF fl.target # << >>
            THEN << FilterByTargetStatusCode(fl.target) >> ELSE << >>)
        \o (IF fl.tpt # << >> /\ ParseFloatOk(fl.tpt)
            THEN << FilterByTargetProcessingTime(ParseFloat(fl.tpt)) >>
            ELSE << >>)]

\* the filter list main builds from the flags, in the order of its blocks;
\* exit: one of the blocks printed its message and called os.Exit(1)
CliFilters(fl) ==
    LET exit ==
            \/ fl.start # << >> /\ ~TimeParseOk(fl.start)
            \/ fl.end # << >> /\ ~TimeParseOk(fl.end)
            \/ fl.url # "" /\ ~RegexpCompileOk(fl.url)
            \/ fl.ua # "" /\ ~RegexpCompileOk(fl.ua)
            \/ fl.tpt # << >> /\ ~ParseFloatOk(fl.tpt)
    IN  [exit |-> exit,
         filters |->
            IF exit THEN << >>
            ELSE (IF fl.start # << >> \/ fl.end # << >>
                  THEN << FilterByTime(
                             IF fl.start # << >> THEN TimeParse(fl.start) ELSE 0,
                             IF fl.end # << >> THEN TimeParse(fl.end) ELSE 0) >>
                  ELSE << >>)
                 \o (IF fl.url # "" THEN << FilterByURL(fl.url) >> ELSE << >>)
                 \o (IF fl.ua # "" THEN << FilterByUserAgent(fl.ua) >> ELSE << >>)
                 \o (IF fl.elb # << >>
                     THEN << FilterByELBStatusCode(fl.elb) >> ELSE << >>)
                 \o (IF fl.target # << >>
                     THEN << FilterByTargetStatusCode(fl.target) >> ELSE << >>)
                 \o (IF fl.tpt # << >>
                     THEN << FilterByTargetProcessingTime(ParseFloat(fl.tpt)) >>
                     ELSE << >>)]

\* the files named on the command line of the modelled runs
CliFiles ==
    { NoFile("notexist"), NoFile("denied"),
      [open |-> "ok", gz |-> FALSE, lines |-> << >>, fail |-> "none", failAfter |-> 0],
      [open |-> "ok", gz |-> FALSE, lines |-> <<"ok25">>, fail |-> "none", failAfter |-> 0],
      [open |-> "ok", gz |-> FALSE, lines |-> <<"ok25_404", "tpt_dash">>,
       fail |-> "none", failAfter |-> 0],
      [open |-> "ok", gz |-> TRUE, lines |-> <<"ok25">>, fail |-> "none", failAfter |-> 0] }

\* flag.Args(): the file names, in order
CliBatches == UNION {[1..k -> CliFiles] : k \in 0..MaxFiles}

\* every filter list of the model: those of the pipeline runs, those main
\* builds, and one-predicate and several-predicate lists over each constructor
FilterChains ==
    FilterLists
    \cup {CliFilters(fl).filters : fl \in CliFlagSets}
    \cup {<< FilterByTime(s, e) >> : s \in 0..3, e \in 0..3}
    \cup {<< FilterByTargetProcessingTime(t) >> : t \in {-2000, 1, 2, 3}}
    \cup { << FilterByURL(".*"), FilterByELBStatusCode(<<"404">>) >>,
           << FilterByELBStatusCode(<<"404">>) >>,
           << FilterByELBStatusCode(<<"200">>), FilterByTargetStatusCode(<<"200">>) >>,
           << FilterByURL("POST") >>,
           << FilterByUserAgent("curl/7.0"), FilterByTargetStatusCode(<<"404">>) >>,
           << FilterByTime(2, 2), FilterByURL("GET"), FilterByUserAgent("curl/7.0"),
              FilterByELBStatusCode(<<"200">>), FilterByTargetStatusCode(<<"200">>),
              FilterByTargetProcessingTime(2) >> }

\* the lines a scanner finds in the raw bytes of the file: the content for a
\* plain file, compressed bytes for a gzip stream
RawLines(f) == IF f.gz THEN << "gzraw" >> ELSE f.lines

Min(a, b) == IF a < b THEN a ELSE b

\* variant: the file is left where the two-byte Read ended
ReaderOffsetNoSeek(f) == 2

\* the offset of the file when getReader hands it on: file.Seek(0,
\* io.SeekStart) has put it back to the start
ReaderOffset(f) == 0

\* the lines of the content as a reader that starts at that offset yields
\* them: behind the start the first line has lost its first bytes
ReadLines(f) ==
    IF ReaderOffset(f) = 0 \/ f.lines = << >> THEN f.lines
    ELSE <<CutKind(f.lines[1])>> \o Tail(f.lines)

\* getReader: "file" (the file itself), "gzip" (a decompressing reader) or
\* "error"; the first Read fails on an empty file (EOF) and on a file whose
\* very first read fails, gzip.NewReader fails when it does not find the
\* header at the offset of the file
getReader(f) ==
    IF (~f.gz /\ f.lines = << >>) \/ (f.fail = "io" /\ f.failAfter = 0)
    THEN "error"
    ELSE IF f.gz
         THEN IF f.fail = "header" \/ ReaderOffset(f) # 0 THEN "error" ELSE "gzip"
         ELSE "file"

\* number of lines s.Scan() yields before it returns false
ScanLimit(f) == IF f.fail = "none" THEN Len(f.lines) ELSE f.failAfter

\* reader.Close() at the end of the concurrent ParseLogs: closing the file
\* succeeds; closing the gzip reader returns the sticky error of the
\* decompressor (a read error of the file or damaged data)
ReaderCloseErr(f) ==
    IF f.gz /\ f.fail \in {"io", "corrupt"} THEN "error" ELSE "nil"

\* the sequential ParseLogs scans the raw file
SeqScanLimit(f) ==
    IF f.fail \in {"io", "toolong"} THEN Min(f.failAfter, Len(RawLines(f)))
    ELSE Len(RawLines(f))

\* s.Err() after the sequential scan loop
SeqScanErr(f) == IF f.fail \in {"io", "toolong"} THEN "error" ELSE "nil"

\* ------------------------------------------------------------------- state
VARIABLES
    mode,          \* "conc": ParseLogs of logwarts.go, "seq": the sequential one
    file,          \* the file behind filename
    filters,       \* the filter list
    numWorkers,
    mainPc,        \* position of the calling routine in ParseLogs
    err,           \* the error ParseLogs returned
    prodPc,        \* position of the producer goroutine
    scanned,       \* lines s.Scan() has yielded
    lineChan,      \* buffered channel of lines (as line numbers)
    lineClosed,
    workerPc,      \* position of each logWorker
    workerLine,    \* the line (or the entry made from it) a worker holds
    totalEntriesProcessed,
    wg,            \* the WaitGroup counter
    entryChan,     \* buffered channel of entries (as numbers of their lines)
    entryClosed,
    closerPc,      \* position of the goroutine that closes entryChan
    sinkActive,    \* processor invocations in progress
    sunk,          \* entries processor was invoked with, in order
    pushed,        \* entries sent on entryChan, in order
    crashed,       \* the process died of a panic
    entriesBefore, \* value of *totalEntriesProcessed when ParseLogs was called
    counted,       \* per line: how often a worker counted it
    dropped,       \* lines a worker read and did not hand on
    sinkReturnsLeft, \* invocations after which processor never returns; -1: never stalls
    filterCalls,   \* per line: how many filter predicates were invoked on its record
    filterLog,     \* per line: the indexes of the predicates invoked on its record, in order
    cliPc,         \* position of main; "lib" when ParseLogs is called directly
    flags,         \* the filter and limit flags of the command line
    filenames,     \* the file arguments of the command line
    fileIdx,       \* index of the file the loop of main is at
    entries,       \* the entries main collected, as pairs of file index and line
    totalEntriesFound,
    outcome,       \* what main printed last before it ended
    sessions,      \* the rows of the sessions table, in the order of their ids
    tables,        \* the names of the log tables of the database
    lastCmd,       \* the last command of the session tool, its argument, its result
    lastSwitch,    \* the last command that changed the rows of the sessions table
    usedTable,     \* the table the last import or query addressed
    dirFiles,      \* the names of the files in the download directory
    imported,      \* the files the last import copied into its table
    fileCount,     \* the number of files the last import reported
    termWidth,     \* what getTerminalWidth returns: a width, or -1 for its error
    headers,       \* the headers of the table, wrapped as far as NewTable has come
    colWidths,     \* the column widths of the table
    tablePc,       \* position of NewTable and of the wrapText it calls
    col,           \* the header NewTable is at
    text,          \* wrapText: the text not yet written
    wrapped        \* wrapText: what was written to the builder

vars ==
    << mode, file, filters, numWorkers, mainPc, err, prodPc, scanned,
       lineChan, lineClosed, workerPc, workerLine, totalEntriesProcessed, wg,
       entryChan, entryClosed, closerPc, sinkActive, sunk, pushed, crashed,
       entriesBefore, counted, dropped, sinkReturnsLeft, filterCalls, filterLog,
       cliPc,
       flags, filenames, fileIdx, entries, totalEntriesFound, outcome,
       sessions, tables, lastCmd, lastSwitch, usedTable, dirFiles, imported,
       fileCount, termWidth, headers, colWidths, tablePc, col, text, wrapped >>

Workers == 1..MaxWorkers

\* kind of line n of the source the current mode reads
LineAt(n) == IF mode = "seq" THEN RawLines(file)[n] ELSE ReadLines(file)[n]

\* ProcessLine tabulated over the lines and filter lists of the model
Outcomes ==
    [kind \in ReadKinds |->
        [fs \in FilterChains |-> ProcessLine(ReadText(kind), fs).kind]]

\* the number of predicates the include loop invokes, tabulated likewise
FilterCalls ==
    [kind \in ReadKinds |->
        [fs \in FilterChains |-> ProcessLine(ReadText(kind), fs).invoked]]

OutcomeAt(n) == Outcomes[LineAt(n)][filters]

FilterCallsAt(n) == FilterCalls[LineAt(n)][filters]

\* the indexes of the predicates the include loop invokes, in the order of
\* the invocations, tabulated likewise
FilterOrder ==
    [kind \in ReadKinds |->
        [fs \in FilterChains |-> ProcessLine(ReadText(kind), fs).order]]

FilterOrderAt(n) == FilterOrder[LineAt(n)][filters]

\* parseLogLine tabulated over the lines of the model
Fields == [kind \in ReadKinds |-> parseLogLine(ReadText(kind))]

\* the entry the mapper builds from each kind of line that yields one
Entries ==
    [kind \in {k \in ReadKinds : Outcomes[k][<< >>] = "entry"} |->
        LogEntry(Fields[kind])]

CounterStarts == {0, 7}

\* no command of the session tool has run: the sessions table is empty
NoCmd == [op |-> "none", arg |-> << >>, ok |-> TRUE]

SessionsFresh ==
    /\ sessions = << >>
    /\ tables = {}
    /\ lastCmd = NoCmd
    /\ lastSwitch = NoCmd
    /\ usedTable = << >>
    /\ dirFiles = {}
    /\ imported = {}
    /\ fileCount = 0

\* no table is being built
NoTable ==
    /\ termWidth = 0
    /\ headers = << >>
    /\ colWidths = << >>
    /\ tablePc = "none"
    /\ col = 0
    /\ text = << >>
    /\ wrapped = << >>

InitWith(m, f, fs, w, c0, budget) ==
    /\ SessionsFresh
    /\ NoTable
    /\ mode = m
    /\ file = f
    /\ filters = fs
    /\ numWorkers = w
    /\ mainPc = "open"
    /\ err = "none"
    /\ prodPc = "unstarted"
    /\ scanned = 0
    /\ lineChan = << >>
    /\ lineClosed = FALSE
    /\ workerPc = [w2 \in Workers |-> "unstarted"]
    /\ workerLine = [w2 \in Workers |-> 0]
    /\ totalEntriesProcessed = c0
    /\ entriesBefore = c0
    /\ counted = [n \in 1..Len(f.lines) |-> 0]
    /\ dropped = 0
    /\ sinkReturnsLeft = budget
    /\ wg = 0
    /\ entryChan = << >>
    /\ entryClosed = FALSE
    /\ closerPc = "unstarted"
    /\ sinkActive = 0
    /\ sunk = << >>
    /\ pushed = << >>
    /\ crashed = FALSE
    /\ filterCalls =
           [n \in 1..(IF m = "seq" THEN Len(RawLines(f)) ELSE Len(f.lines)) |-> 0]
    /\ filterLog =
           [n \in 1..(IF m = "seq" THEN Len(RawLines(f)) ELSE Len(f.lines)) |-> << >>]
    /\ cliPc = "lib"
    /\ flags = NoFlags
    /\ filenames = << >>
    /\ fileIdx = 0
    /\ entries = << >>
    /\ totalEntriesFound = 0
    /\ outcome = "none"

Init ==
    \E m \in {"conc", "seq"}, f \in Files, fs \in FilterLists,
       w \in 0..MaxWorkers, c0 \in CounterStarts :
        /\ m = "seq" => (w = 0 /\ c0 = 0)
        /\ InitWith(m, f, fs, w, c0, -1)

\* --------------------------------------------------- channels and WaitGroup
\* variant: a send never blocks (an unbounded queue)
CanSendUnbounded(ch, cap) == TRUE

\* a send on a buffered channel proceeds while the buffer has room
CanSend(ch, cap) == Len(ch) < cap

\* variant: the closing goroutine does not wait for the workers
WaitReturnsEarly(counter) == TRUE

\* wg.Wait() returns once the counter is zero
WaitReturns(counter) == counter = 0

\* variant: the counter moves by two for a line
AtomicAddTwice(counter) == counter + 2

\* atomic.AddInt64(totalEntriesProcessed, 1)
AtomicAdd(counter) == counter + 1

\* variant: a missing file is reported like any other open error
OpenResultStrict(f) == IF f.open = "ok" THEN "opened" ELSE "error"

\* os.Open and the error check that follows: "opened", or the value returned
OpenResult(f) ==
    IF f.open = "ok" THEN "opened"
    ELSE IF f.open = "notexist" THEN "nil"
    ELSE "error"

\* ------------------------------------------------- ParseLogs, calling routine
Open ==
    /\ ~crashed /\ mode = "conc" /\ mainPc = "open"
    /\ IF OpenResult(file) = "opened"
       THEN mainPc' = "getReader" /\ err' = err
       ELSE mainPc' = "returned" /\ err' = OpenResult(file)
    /\ UNCHANGED << mode, file, filters, numWorkers, prodPc, scanned, lineChan,
                    lineClosed, workerPc, workerLine, totalEntriesProcessed, wg,
                    entryChan, entryClosed, closerPc, sinkActive, sunk, pushed,
                    crashed, entriesBefore, counted, dropped, sinkReturnsLeft,
                    filterCalls, filterLog, cliPc, flags, filenames, fileIdx,
                    entries, totalEntriesFound, outcome, sessions, tables,
                    lastCmd, lastSwitch, usedTable, dirFiles, imported, fileCount,
                    termWidth, headers, colWidths, tablePc, col, text, wrapped >>

GetReader ==
    /\ ~crashed /\ mode = "conc" /\ mainPc = "getReader"
    /\ IF getReader(file) = "error"
       THEN mainPc' = "returned" /\ err' = "error"
       ELSE mainPc' = "spawn" /\ err' = err
    /\ UNCHANGED << mode, file, filters, numWorkers, prodPc, scanned, lineChan,
                    lineClosed, workerPc, workerLine, totalEntriesProcessed, wg,
                    entryChan, entryClosed, closerPc, sinkActive, sunk, pushed,
                    crashed, entriesBefore, counted, dropped, sinkReturnsLeft,
                    filterCalls, filterLog, cliPc, flags, filenames, fileIdx,
                    entries, totalEntriesFound, outcome, sessions, tables,
                    lastCmd, lastSwitch, usedTable, dirFiles, imported, fileCount,
                    termWidth, headers, colWidths, tablePc, col, text, wrapped >>

\* the channels are made, wg.Add(1) and go logWorker for each worker, then
\* the producer and the closing goroutine are started
Spawn ==
    /\ ~crashed /\ mode = "conc" /\ mainPc = "spawn"
    /\ workerPc' = [w \in Workers |-> IF w <= numWorkers THEN "recv" ELSE "unstarted"]
    /\ wg' = wg + numWorkers
    /\ prodPc' = "scan"
    /\ closerPc' = "wait"
    /\ mainPc' = "drain"
    /\ UNCHANGED << mode, file, filters, numWorkers, err, scanned, lineChan,
                    lineClosed, workerLine, totalEntriesProcessed, entryChan,
                    entryClosed, sinkActive, sunk, pushed, crashed, entriesBefore,
                    counted, dropped, sinkReturnsLeft, filterCalls, filterLog,
                    cliPc, flags, filenames, fileIdx, entries, totalEntriesFound,
                    outcome, sessions, tables, lastCmd, lastSwitch, usedTable,
                    dirFiles, imported, fileCount, termWidth, headers, colWidths,
                    tablePc, col, text, wrapped >>

\* for entry := range entryChan: an entry is received and processor(entry)
\* is invoked
MainRecv ==
    /\ ~crashed /\ mode = "conc" /\ mainPc = "drain"
    /\ entryChan # << >>
    /\ entryChan' = Tail(entryChan)
    /\ sunk' = Append(sunk, Head(entryChan))
    /\ sinkActive' = sinkActive + 1
    /\ mainPc' = "sink"
    /\ UNCHANGED << mode, file, filters, numWorkers, err, prodPc, scanned,
                    lineChan, lineClosed, workerPc, workerLine,
                    totalEntriesProcessed, wg, entryClosed, closerPc, pushed,
                    crashed, entriesBefore, counted, dropped, sinkReturnsLeft,
                    filterCalls, filterLog, cliPc, flags, filenames, fileIdx,
                    entries, totalEntriesFound, outcome, sessions, tables,
                    lastCmd, lastSwitch, usedTable, dirFiles, imported, fileCount,
                    termWidth, headers, colWidths, tablePc, col, text, wrapped >>

\* variant: the closure keeps every entry
ProcessorNoLimit(limit, collected, entry) == Append(collected, entry)

\* the processor closure of main: under the mutex, an entry beyond the limit
\* is not kept, any other is appended
Processor(limit, collected, entry) ==
    IF limit > 0 /\ Len(collected) >= limit THEN collected
    ELSE Append(collected, entry)

\* the found-counter after the closure has run: the early return at the
\* limit skips the atomic increment
ProcessorFound(limit, collected, found) ==
    IF limit > 0 /\ Len(collected) >= limit THEN found ELSE found + 1

\* processor(entry) returns; when main is the caller its closure has run
SinkReturn ==
    /\ ~crashed /\ mode = "conc" /\ mainPc = "sink"
    /\ sinkReturnsLeft # 0
    /\ IF cliPc = "lib"
       THEN UNCHANGED << entries, totalEntriesFound >>
       ELSE /\ entries' = Processor(flags.limit, entries,
                                    <<fileIdx, sunk[Len(sunk)]>>)
            /\ totalEntriesFound' =
                   ProcessorFound(flags.limit, entries, totalEntriesFound)
    /\ sinkReturnsLeft' = IF sinkReturnsLeft > 0 THEN sinkReturnsLeft - 1 ELSE -1
    /\ sinkActive' = sinkActive - 1
    /\ mainPc' = "drain"
    /\ UNCHANGED << mode, file, filters, numWorkers, err, prodPc, scanned,
                    lineChan, lineClosed, workerPc, workerLine,
                    totalEntriesProcessed, wg, entryChan, entryClosed, closerPc,
                    sunk, pushed, crashed, entriesBefore, counted, dropped,
                    filterCalls, filterLog, cliPc, flags, filenames, fileIdx,
                    outcome, sessions, tables, lastCmd, lastSwitch, usedTable,
                    dirFiles, imported, fileCount, termWidth, headers, colWidths,
                    tablePc, col, text, wrapped >>

\* the range loop ends: entryChan is closed and empty
MainRangeEnd ==
    /\ ~crashed /\ mode = "conc" /\ mainPc = "drain"
    /\ entryChan = << >> /\ entryClosed
    /\ mainPc' = "closeReader"
    /\ UNCHANGED << mode, file, filters, numWorkers, err, prodPc, scanned,
                    lineChan, lineClosed, workerPc, workerLine,
                    totalEntriesProcessed, wg, entryChan, entryClosed, closerPc,
                    sinkActive, sunk, pushed, crashed, entriesBefore, counted,
                    dropped, sinkReturnsLeft, filterCalls, filterLog, cliPc,
                    flags, filenames, fileIdx, entries, totalEntriesFound,
                    outcome, sessions, tables, lastCmd, lastSwitch, usedTable,
                    dirFiles, imported, fileCount, termWidth, headers, colWidths,
                    tablePc, col, text, wrapped >>

\* reader.Close() and the return
CloseReader ==
    /\ ~crashed /\ mode = "conc" /\ mainPc = "closeReader"
    /\ err' = ReaderCloseErr(file)
    /\ mainPc' = "returned"
    /\ UNCHANGED << mode, file, filters, numWorkers, prodPc, scanned, lineChan,
                    lineClosed, workerPc, workerLine, totalEntriesProcessed, wg,
                    entryChan, entryClosed, closerPc, sinkActive, sunk, pushed,
                    crashed, entriesBefore, counted, dropped, sinkReturnsLeft,
                    filterCalls, filterLog, cliPc, flags, filenames, fileIdx,
                    entries, totalEntriesFound, outcome, sessions, tables,
                    lastCmd, lastSwitch, usedTable, dirFiles, imported, fileCount,
                    termWidth, headers, colWidths, tablePc, col, text, wrapped >>

\* ------------------------------------------------------------ the producer
\* s.Scan(): the next line, or the end of the loop
ProducerScan ==
    /\ ~crashed /\ prodPc = "scan"
    /\ IF scanned < ScanLimit(file)
       THEN scanned' = scanned + 1 /\ prodPc' = "send"
       ELSE scanned' = scanned /\ prodPc' = "close"
    /\ UNCHANGED << mode, file, filters, numWorkers, mainPc, err, lineChan,
                    lineClosed, workerPc, workerLine, totalEntriesProcessed, wg,
                    entryChan, entryClosed, closerPc, sinkActive, sunk, pushed,
                    crashed, entriesBefore, counted, dropped, sinkReturnsLeft,
                    filterCalls, filterLog, cliPc, flags, filenames, fileIdx,
                    entries, totalEntriesFound, outcome, sessions, tables,
                    lastCmd, lastSwitch, usedTable, dirFiles, imported, fileCount,
                    termWidth, headers, colWidths, tablePc, col, text, wrapped >>

\* lineChan <- line
ProducerSend ==
    /\ ~crashed /\ prodPc = "send"
    /\ CanSend(lineChan, LineChanCap)
    /\ lineChan' = Append(lineChan, scanned)
    /\ prodPc' = "scan"
    /\ UNCHANGED << mode, file, filters, numWorkers, mainPc, err, scanned,
                    lineClosed, workerPc, workerLine, totalEntriesProcessed, wg,
                    entryChan, entryClosed, closerPc, sinkActive, sunk, pushed,
                    crashed, entriesBefore, counted, dropped, sinkReturnsLeft,
                    filterCalls, filterLog, cliPc, flags, filenames, fileIdx,
                    entries, totalEntriesFound, outcome, sessions, tables,
                    lastCmd, lastSwitch, usedTable, dirFiles, imported, fileCount,
                    termWidth, headers, colWidths, tablePc, col, text, wrapped >>

\* close(lineChan)
ProducerClose ==
    /\ ~crashed /\ prodPc = "close"
    /\ lineClosed' = TRUE
    /\ prodPc' = "done"
    /\ UNCHANGED << mode, file, filters, numWorkers, mainPc, err, scanned,
                    lineChan, workerPc, workerLine, totalEntriesProcessed, wg,
                    entryChan, entryClosed, closerPc, sinkActive, sunk, pushed,
                    crashed, entriesBefore, counted, dropped, sinkReturnsLeft,
                    filterCalls, filterLog, cliPc, flags, filenames, fileIdx,
                    entries, totalEntriesFound, outcome, sessions, tables,
                    lastCmd, lastSwitch, usedTable, dirFiles, imported, fileCount,
                    termWidth, headers, colWidths, tablePc, col, text, wrapped >>

\* --------------------------------------------------------------- logWorker
\* for line := range lineChan: a line is received
WorkerRecv(w) ==
    /\ ~crashed /\ workerPc[w] = "recv"
    /\ lineChan # << >>
    /\ workerLine' = [workerLine EXCEPT ![w] = Head(lineChan)]
    /\ lineChan' = Tail(lineChan)
    /\ workerPc' = [workerPc EXCEPT ![w] = "count"]
    /\ UNCHANGED << mode, file, filters, numWorkers, mainPc, err, prodPc, scanned,
                    lineClosed, totalEntriesProcessed, wg, entryChan, entryClosed,
                    closerPc, sinkActive, sunk, pushed, crashed, entriesBefore,
                    counted, dropped, sinkReturnsLeft, filterCalls, filterLog,
                    cliPc, flags, filenames, fileIdx, entries, totalEntriesFound,
                    outcome, sessions, tables, lastCmd, lastSwitch, usedTable,
                    dirFiles, imported, fileCount, termWidth, headers, colWidths,
                    tablePc, col, text, wrapped >>

\* the range loop ends and the deferred wg.Done() runs
WorkerExit(w) ==
    /\ ~crashed /\ workerPc[w] = "recv"
    /\ lineChan = << >> /\ lineClosed
    /\ wg' = wg - 1
    /\ workerPc' = [workerPc EXCEPT ![w] = "done"]
    /\ UNCHANGED << mode, file, filters, numWorkers, mainPc, err, prodPc, scanned,
                    lineChan, lineClosed, workerLine, totalEntriesProcessed,
                    entryChan, entryClosed, closerPc, sinkActive, sunk, pushed,
                    crashed, entriesBefore, counted, dropped, sinkReturnsLeft,
                    filterCalls, filterLog, cliPc, flags, filenames, fileIdx,
                    entries, totalEntriesFound, outcome, sessions, tables,
                    lastCmd, lastSwitch, usedTable, dirFiles, imported, fileCount,
                    termWidth, headers, colWidths, tablePc, col, text, wrapped >>

\* variant: the increment sits inside the field-count check
WorkerCountIfParsed(w) ==
    /\ ~crashed /\ workerPc[w] = "count"
    /\ LET parsed == Len(Fields[LineAt(workerLine[w])]) >= MinFields
       IN  /\ totalEntriesProcessed' =
                  IF parsed THEN AtomicAdd(totalEntriesProcessed)
                  ELSE totalEntriesProcessed
           /\ counted' = [counted EXCEPT ![workerLine[w]] =
                             IF parsed THEN @ + 1 ELSE @]
    /\ workerPc' = [workerPc EXCEPT ![w] = "parse"]
    /\ UNCHANGED << mode, file, filters, numWorkers, mainPc, err, prodPc, scanned,
                    lineChan, lineClosed, workerLine, wg, entryChan, entryClosed,
                    closerPc, sinkActive, sunk, pushed, crashed, entriesBefore,
                    dropped, sinkReturnsLeft, filterCalls, filterLog, cliPc,
                    flags, filenames, fileIdx, entries, totalEntriesFound,
                    outcome, sessions, tables, lastCmd, lastSwitch, usedTable,
                    dirFiles, imported, fileCount, termWidth, headers, colWidths,
                    tablePc, col, text, wrapped >>

\* atomic.AddInt64 on the shared counter, once per line received
WorkerCount(w) ==
    /\ ~crashed /\ workerPc[w] = "count"
    /\ totalEntriesProcessed' = AtomicAdd(totalEntriesProcessed)
    /\ counted' = [counted EXCEPT ![workerLine[w]] = @ + 1]
    /\ workerPc' = [workerPc EXCEPT ![w] = "parse"]
    /\ UNCHANGED << mode, file, filters, numWorkers, mainPc, err, prodPc, scanned,
                    lineChan, lineClosed, workerLine, wg, entryChan, entryClosed,
                    closerPc, sinkActive, sunk, pushed, crashed, entriesBefore,
                    dropped, sinkReturnsLeft, filterCalls, filterLog, cliPc,
                    flags, filenames, fileIdx, entries, totalEntriesFound,
                    outcome, sessions, tables, lastCmd, lastSwitch, usedTable,
                    dirFiles, imported, fileCount, termWidth, headers, colWidths,
                    tablePc, col, text, wrapped >>

\* variant: a line whose timestamp does not parse ends the worker
WorkerParseStopOnBadTimestamp(w) ==
    /\ ~crashed /\ workerPc[w] = "parse"
    /\ LET out == OutcomeAt(workerLine[w])
           fields == Fields[LineAt(workerLine[w])]
           stop == Len(fields) >= MinFields /\ ~TimeParseOk(At(fields, 1))
       IN  /\ workerPc' = [workerPc EXCEPT ![w] =
                              CASE stop -> "done"
                                [] ~stop /\ out = "entry" -> "send"
                                [] ~stop /\ out = "drop" -> "recv"
                                [] ~stop /\ out = "panic" -> "panic"]
           /\ wg' = IF stop THEN wg - 1 ELSE wg
           /\ workerLine' = [workerLine EXCEPT ![w] =
                                IF out = "drop" THEN 0 ELSE @]
           /\ dropped' = IF out = "drop" THEN dropped + 1 ELSE dropped
           /\ crashed' = (out = "panic")
           /\ filterCalls' = [filterCalls EXCEPT ![workerLine[w]] =
                                 @ + FilterCallsAt(workerLine[w])]
           /\ filterLog' = [filterLog EXCEPT ![workerLine[w]] =
                                 @ \o FilterOrderAt(workerLine[w])]
    /\ UNCHANGED << mode, file, filters, numWorkers, mainPc, err, prodPc, scanned,
                    lineChan, lineClosed, totalEntriesProcessed, entryChan,
                    entryClosed, closerPc, sinkActive, sunk, pushed,
                    entriesBefore, counted, sinkReturnsLeft, cliPc, flags,
                    filenames, fileIdx, entries, totalEntriesFound, outcome,
                    sessions, tables, lastCmd, lastSwitch, usedTable, dirFiles,
                    imported, fileCount, termWidth, headers, colWidths, tablePc,
                    col, text, wrapped >>

\* parseLogLine, the mapping and the filters on the line the worker holds
WorkerParse(w) ==
    /\ ~crashed /\ workerPc[w] = "parse"
    /\ LET out == OutcomeAt(workerLine[w])
       IN  /\ workerPc' = [workerPc EXCEPT ![w] =
                              CASE out = "entry" -> "send"
                                [] out = "drop" -> "recv"
                                [] out = "panic" -> "panic"]
           /\ workerLine' = [workerLine EXCEPT ![w] =
                                IF out = "drop" THEN 0 ELSE @]
           /\ dropped' = IF out = "drop" THEN dropped + 1 ELSE dropped
           /\ crashed' = (out = "panic")
           /\ filterCalls' = [filterCalls EXCEPT ![workerLine[w]] =
                                 @ + FilterCallsAt(workerLine[w])]
           /\ filterLog' = [filterLog EXCEPT ![workerLine[w]] =
                                 @ \o FilterOrderAt(workerLine[w])]
    /\ UNCHANGED << mode, file, filters, numWorkers, mainPc, err, prodPc, scanned,
                    lineChan, lineClosed, totalEntriesProcessed, wg, entryChan,
                    entryClosed, closerPc, sinkActive, sunk, pushed,
                    entriesBefore, counted, sinkReturnsLeft, cliPc, flags,
                    filenames, fileIdx, entries, totalEntriesFound, outcome,
                    sessions, tables, lastCmd, lastSwitch, usedTable, dirFiles,
                    imported, fileCount, termWidth, headers, colWidths, tablePc,
                    col, text, wrapped >>

\* variant: the worker invokes processor itself instead of sending
WorkerSendDirect(w) ==
    /\ ~crashed /\ workerPc[w] = "send"
    /\ sunk' = Append(sunk, workerLine[w])
    /\ sinkActive' = sinkActive + 1
    /\ workerPc' = [workerPc EXCEPT ![w] = "recv"]
    /\ workerLine' = [workerLine EXCEPT ![w] = 0]
    /\ UNCHANGED << mode, file, filters, numWorkers, mainPc, err, prodPc, scanned,
                    lineChan, lineClosed, totalEntriesProcessed, wg, entryChan,
                    entryClosed, closerPc, pushed, crashed, entriesBefore,
                    counted, dropped, sinkReturnsLeft, filterCalls, filterLog,
                    cliPc, flags, filenames, fileIdx, entries, totalEntriesFound,
                    outcome, sessions, tables, lastCmd, lastSwitch, usedTable,
                    dirFiles, imported, fileCount, termWidth, headers, colWidths,
                    tablePc, col, text, wrapped >>

\* entryChan <- entry; a send on a closed channel panics
WorkerSend(w) ==
    /\ ~crashed /\ workerPc[w] = "send"
    /\ entryClosed \/ CanSend(entryChan, EntryChanCap)
    /\ IF entryClosed
       THEN /\ crashed' = TRUE
            /\ workerPc' = [workerPc EXCEPT ![w] = "panic"]
            /\ UNCHANGED << entryChan, pushed, workerLine >>
       ELSE /\ entryChan' = Append(entryChan, workerLine[w])
            /\ pushed' = Append(pushed, workerLine[w])
            /\ workerPc' = [workerPc EXCEPT ![w] = "recv"]
            /\ workerLine' = [workerLine EXCEPT ![w] = 0]
            /\ crashed' = crashed
    /\ UNCHANGED << mode, file, filters, numWorkers, mainPc, err, prodPc, scanned,
                    lineChan, lineClosed, totalEntriesProcessed, wg, entryClosed,
                    closerPc, sinkActive, sunk, entriesBefore, counted, dropped,
                    sinkReturnsLeft, filterCalls, filterLog, cliPc, flags,
                    filenames, fileIdx, entries, totalEntriesFound, outcome,
                    sessions, tables, lastCmd, lastSwitch, usedTable, dirFiles,
                    imported, fileCount, termWidth, headers, colWidths, tablePc,
                    col, text, wrapped >>

\* ------------------------------------------------------ the closing goroutine
\* wg.Wait() returns and close(entryChan)
CloserClose ==
    /\ ~crashed /\ closerPc = "wait"
    /\ WaitReturns(wg)
    /\ entryClosed' = TRUE
    /\ closerPc' = "done"
    /\ UNCHANGED << mode, file, filters, numWorkers, mainPc, err, prodPc, scanned,
                    lineChan, lineClosed, workerPc, workerLine,
                    totalEntriesProcessed, wg, entryChan, sinkActive, sunk,
                    pushed, crashed, entriesBefore, counted, dropped,
                    sinkReturnsLeft, filterCalls, filterLog, cliPc, flags,
                    filenames, fileIdx, entries, totalEntriesFound, outcome,
                    sessions, tables, lastCmd, lastSwitch, usedTable, dirFiles,
                    imported, fileCount, termWidth, headers, colWidths, tablePc,
                    col, text, wrapped >>

\* ------------------------------------------------- the sequential ParseLogs
SeqOpen ==
    /\ ~crashed /\ mode = "seq" /\ mainPc = "open"
    /\ IF OpenResult(file) = "opened"
       THEN mainPc' = "seqScan" /\ err' = err
       ELSE mainPc' = "returned" /\ err' = OpenResult(file)
    /\ UNCHANGED << mode, file, filters, numWorkers, prodPc, scanned, lineChan,
                    lineClosed, workerPc, workerLine, totalEntriesProcessed, wg,
                    entryChan, entryClosed, closerPc, sinkActive, sunk, pushed,
                    crashed, entriesBefore, counted, dropped, sinkReturnsLeft,
                    filterCalls, filterLog, cliPc, flags, filenames, fileIdx,
                    entries, totalEntriesFound, outcome, sessions, tables,
                    lastCmd, lastSwitch, usedTable, dirFiles, imported, fileCount,
                    termWidth, headers, colWidths, tablePc, col, text, wrapped >>

\* variant: the call for a matching line is put before the earlier calls
SeqLineNewestFirst ==
    /\ ~crashed /\ mode = "seq" /\ mainPc = "seqScan"
    /\ scanned < SeqScanLimit(file)
    /\ scanned' = scanned + 1
    /\ LET out == OutcomeAt(scanned + 1)
       IN  /\ mainPc' = IF out = "entry" THEN "seqSink" ELSE "seqScan"
           /\ sunk' = IF out = "entry" THEN <<scanned + 1>> \o sunk ELSE sunk
           /\ sinkActive' = IF out = "entry" THEN sinkActive + 1 ELSE sinkActive
           /\ dropped' = IF out = "drop" THEN dropped + 1 ELSE dropped
           /\ crashed' = (out = "panic")
           /\ filterCalls' = [filterCalls EXCEPT ![scanned + 1] =
                                 @ + FilterCallsAt(scanned + 1)]
           /\ filterLog' = [filterLog EXCEPT ![scanned + 1] =
                                 @ \o FilterOrderAt(scanned + 1)]
    /\ UNCHANGED << mode, file, filters, numWorkers, err, prodPc, lineChan,
                    lineClosed, workerPc, workerLine, totalEntriesProcessed, wg,
                    entryChan, entryClosed, closerPc, pushed, entriesBefore,
                    counted, sinkReturnsLeft, cliPc, flags, filenames, fileIdx,
                    entries, totalEntriesFound, outcome, sessions, tables,
                    lastCmd, lastSwitch, usedTable, dirFiles, imported, fileCount,
                    termWidth, headers, colWidths, tablePc, col, text, wrapped >>

\* one iteration of the scan loop, up to the call of processor
SeqLine ==
    /\ ~crashed /\ mode = "seq" /\ mainPc = "seqScan"
    /\ scanned < SeqScanLimit(file)
    /\ scanned' = scanned + 1
    /\ LET out == OutcomeAt(scanned + 1)
       IN  /\ mainPc' = IF out = "entry" THEN "seqSink" ELSE "seqScan"
           /\ sunk' = IF out = "entry" THEN Append(sunk, scanned + 1) ELSE sunk
           /\ sinkActive' = IF out = "entry" THEN sinkActive + 1 ELSE sinkActive
           /\ dropped' = IF out = "drop" THEN dropped + 1 ELSE dropped
           /\ crashed' = (out = "panic")
           /\ filterCalls' = [filterCalls EXCEPT ![scanned + 1] =
                                 @ + FilterCallsAt(scanned + 1)]
           /\ filterLog' = [filterLog EXCEPT ![scanned + 1] =
                                 @ \o FilterOrderAt(scanned + 1)]
    /\ UNCHANGED << mode, file, filters, numWorkers, err, prodPc, lineChan,
                    lineClosed, workerPc, workerLine, totalEntriesProcessed, wg,
                    entryChan, entryClosed, closerPc, pushed, entriesBefore,
                    counted, sinkReturnsLeft, cliPc, flags, filenames, fileIdx,
                    entries, totalEntriesFound, outcome, sessions, tables,
                    lastCmd, lastSwitch, usedTable, dirFiles, imported, fileCount,
                    termWidth, headers, colWidths, tablePc, col, text, wrapped >>

SeqSinkReturn ==
    /\ ~crashed /\ mode = "seq" /\ mainPc = "seqSink"
    /\ sinkActive' = sinkActive - 1
    /\ mainPc' = "seqScan"
    /\ UNCHANGED << mode, file, filters, numWorkers, err, prodPc, scanned,
                    lineChan, lineClosed, workerPc, workerLine,
                    totalEntriesProcessed, wg, entryChan, entryClosed, closerPc,
                    sunk, pushed, crashed, entriesBefore, counted, dropped,
                    sinkReturnsLeft, filterCalls, filterLog, cliPc, flags,
                    filenames, fileIdx, entries, totalEntriesFound, outcome,
                    sessions, tables, lastCmd, lastSwitch, usedTable, dirFiles,
                    imported, fileCount, termWidth, headers, colWidths, tablePc,
                    col, text, wrapped >>

\* s.Scan() returned false: s.Err() decides the result
SeqEnd ==
    /\ ~crashed /\ mode = "seq" /\ mainPc = "seqScan"
    /\ scanned >= SeqScanLimit(file)
    /\ err' = SeqScanErr(file)
    /\ mainPc' = "returned"
    /\ UNCHANGED << mode, file, filters, numWorkers, prodPc, scanned, lineChan,
                    lineClosed, workerPc, workerLine, totalEntriesProcessed, wg,
                    entryChan, entryClosed, closerPc, sinkActive, sunk, pushed,
                    crashed, entriesBefore, counted, dropped, sinkReturnsLeft,
                    filterCalls, filterLog, cliPc, flags, filenames, fileIdx,
                    entries, totalEntriesFound, outcome, sessions, tables,
                    lastCmd, lastSwitch, usedTable, dirFiles, imported, fileCount,
                    termWidth, headers, colWidths, tablePc, col, text, wrapped >>

\* ------------------------------------------------------------------ main
\* the filter blocks and the file arguments: an input that is not valid, or
\* an empty list of files, ends the run with status 1
CliFlags ==
    /\ ~crashed /\ cliPc = "flags"
    /\ LET built == CliFilters(flags)
       IN  IF built.exit
           THEN cliPc' = "exit1" /\ outcome' = "invalid filter" /\ filters' = filters
           ELSE IF Len(filenames) = 0
           THEN cliPc' = "exit1" /\ outcome' = "no input files" /\ filters' = filters
           ELSE cliPc' = "loop" /\ outcome' = outcome /\ filters' = built.filters
    /\ UNCHANGED << mode, file, numWorkers, mainPc, err, prodPc, scanned,
                    lineChan, lineClosed, workerPc, workerLine,
                    totalEntriesProcessed, wg, entryChan, entryClosed, closerPc,
                    sinkActive, sunk, pushed, crashed, entriesBefore, counted,
                    dropped, sinkReturnsLeft, filterCalls, filterLog, flags,
                    filenames, fileIdx, entries, totalEntriesFound, sessions,
                    tables, lastCmd, lastSwitch, usedTable, dirFiles, imported,
                    fileCount, termWidth, headers, colWidths, tablePc, col, text,
                    wrapped >>

\* the loop of main calls ParseLogs for the file it is at; the call starts
\* with fresh channels, a fresh WaitGroup and the shared counter as it is
CliCall ==
    /\ ~crashed /\ cliPc = "loop"
    /\ file' = filenames[fileIdx]
    /\ mainPc' = "open"
    /\ err' = "none"
    /\ prodPc' = "unstarted"
    /\ scanned' = 0
    /\ lineChan' = << >>
    /\ lineClosed' = FALSE
    /\ workerPc' = [w \in Workers |-> "unstarted"]
    /\ workerLine' = [w \in Workers |-> 0]
    /\ entriesBefore' = totalEntriesProcessed
    /\ counted' = [n \in 1..Len(filenames[fileIdx].lines) |-> 0]
    /\ filterCalls' = [n \in 1..Len(filenames[fileIdx].lines) |-> 0]
    /\ filterLog' = [n \in 1..Len(filenames[fileIdx].lines) |-> << >>]
    /\ dropped' = 0
    /\ wg' = 0
    /\ entryChan' = << >>
    /\ entryClosed' = FALSE
    /\ closerPc' = "unstarted"
    /\ sinkActive' = 0
    /\ sunk' = << >>
    /\ pushed' = << >>
    /\ cliPc' = "parsing"
    /\ UNCHANGED << mode, filters, numWorkers, totalEntriesProcessed, crashed,
                    sinkReturnsLeft, flags, filenames, fileIdx, entries,
                    totalEntriesFound, outcome, sessions, tables, lastCmd,
                    lastSwitch, usedTable, dirFiles, imported, fileCount,
                    termWidth, headers, colWidths, tablePc, col, text, wrapped >>

\* ParseLogs returned to main: an error ends the run with status 1, a
\* reached limit ends the loop, else the loop goes on to the next file
CliReturn ==
    /\ ~crashed /\ cliPc = "parsing" /\ mainPc = "returned"
    /\ IF err = "error"
       THEN cliPc' = "exit1" /\ outcome' = "parse error" /\ fileIdx' = fileIdx
       ELSE IF flags.limit > 0 /\ Len(entries) >= flags.limit
       THEN cliPc' = "output" /\ outcome' = outcome /\ fileIdx' = fileIdx
       ELSE IF fileIdx < Len(filenames)
       THEN cliPc' = "loop" /\ outcome' = outcome /\ fileIdx' = fileIdx + 1
       ELSE cliPc' = "output" /\ outcome' = outcome /\ fileIdx' = fileIdx
    /\ UNCHANGED << mode, file, filters, numWorkers, mainPc, err, prodPc, scanned,
                    lineChan, lineClosed, workerPc, workerLine,
                    totalEntriesProcessed, wg, entryChan, entryClosed, closerPc,
                    sinkActive, sunk, pushed, crashed, entriesBefore, counted,
                    dropped, sinkReturnsLeft, filterCalls, filterLog, flags,
                    filenames, entries, totalEntriesFound, sessions, tables,
                    lastCmd, lastSwitch, usedTable, dirFiles, imported, fileCount,
                    termWidth, headers, colWidths, tablePc, col, text, wrapped >>

\* the entries are printed, or the message that there are none, then the
\* statistics
CliOutput ==
    /\ ~crashed /\ cliPc = "output"
    /\ outcome' = IF Len(entries) > 0 THEN "printed" ELSE "no matches"
    /\ cliPc' = "exit0"
    /\ UNCHANGED << mode, file, filters, numWorkers, mainPc, err, prodPc, scanned,
                    lineChan, lineClosed, workerPc, workerLine,
                    totalEntriesProcessed, wg, entryChan, entryClosed, closerPc,
                    sinkActive, sunk, pushed, crashed, entriesBefore, counted,
                    dropped, sinkReturnsLeft, filterCalls, filterLog, flags,
                    filenames, fileIdx, entries, totalEntriesFound, sessions,
                    tables, lastCmd, lastSwitch, usedTable, dirFiles, imported,
                    fileCount, termWidth, headers, colWidths, tablePc, col, text,
                    wrapped >>

\* ------------------------------------------------------- the session tool
\* Names are sequences of characters over the alphabet a, b, A, 1, - and _.
\* strings.ToLower on the characters of the model
ToLower(c) == IF c = "A" THEN "a" ELSE c

\* the class [a-z0-9_] of the pattern of SanitizeSessionName
IsNameChar(c) == c \in {"a", "b", "1", "_"}

\* the test on the first character: a letter a..z or the underscore
IsLetterOrUnderscore(c) == c \in {"a", "b", "_"}

\* variant: the name is cut to MaxNameLen before the underscore is put in
\* front
SanitizeSessionNameCutFirst(sessionName) ==
    LET lowered == [i \in 1..Len(sessionName) |-> ToLower(sessionName[i])]
        replaced == [i \in 1..Len(lowered) |->
                        IF IsNameChar(lowered[i]) THEN lowered[i] ELSE "_"]
    IN  IF Len(replaced) = 0 THEN [err |-> TRUE, name |-> << >>]
        ELSE LET cut == IF Len(replaced) > MaxNameLen
                        THEN SubSeq(replaced, 1, MaxNameLen) ELSE replaced
             IN  [err |-> FALSE,
                  name |-> IF ~IsLetterOrUnderscore(cut[1])
                           THEN <<"_">> \o cut ELSE cut]

\* SanitizeSessionName: lower case, every other character replaced by an
\* underscore, an underscore put in front of a name that starts with
\* neither a letter nor an underscore, the result cut to MaxNameLen; the
\* empty name is an error
SanitizeSessionName(sessionName) ==
    LET lowered == [i \in 1..Len(sessionName) |-> ToLower(sessionName[i])]
        replaced == [i \in 1..Len(lowered) |->
                        IF IsNameChar(lowered[i]) THEN lowered[i] ELSE "_"]
    IN  IF Len(replaced) = 0 THEN [err |-> TRUE, name |-> << >>]
        ELSE LET prefixed == IF ~IsLetterOrUnderscore(replaced[1])
                             THEN <<"_">> \o replaced ELSE replaced
             IN  [err |-> FALSE,
                  name |-> IF Len(prefixed) > MaxNameLen
                           THEN SubSeq(prefixed, 1, MaxNameLen) ELSE prefixed]

\* a name of MaxNameLen + 1 characters that ends with the character c
LongName(c) == [i \in 1..(MaxNameLen + 1) |-> IF i <= MaxNameLen THEN "a" ELSE c]

\* a name of MaxNameLen characters that starts with a digit
DigitName == [i \in 1..MaxNameLen |-> IF i = 1 THEN "1" ELSE "a"]

\* the names given on the command line of the modelled runs
SessionNames ==
    { << >>, <<"a">>, <<"A">>, <<"a", "-", "b">>, LongName("b"), DigitName }

\* the name of the log table of a session
TableName(name) == <<"alb_logs_">> \o name

\* variant: the rows that are active stay active
InactivateNone(ss) == ss

\* UPDATE sessions SET state = 'inactive' WHERE state = 'active'
InactivateSessions(ss) ==
    [i \in 1..Len(ss) |-> [ss[i] EXCEPT !.state = "inactive"]]

\* GetActiveSession: the first row whose state is active, an error when
\* there is none
GetActiveSession(ss) ==
    LET act == {i \in 1..Len(ss) : ss[i].state = "active"}
    IN  IF act = {} THEN [err |-> TRUE, name |-> << >>]
        ELSE [err |-> FALSE,
              name |-> ss[CHOOSE i \in act : \A j \in act : i <= j].name]

\* variant: the column name is not UNIQUE, every insert succeeds
CreateSessionAnyName(ss, name) ==
    LET cleared == InactivateSessions(ss)
        san == SanitizeSessionName(name)
    IN  IF san.err THEN [err |-> TRUE, sessions |-> cleared]
        ELSE [err |-> FALSE,
              sessions |-> Append(cleared,
                                  [name |-> san.name, state |-> "active"])]

\* CreateSession: the active rows are inactivated first, then the name is
\* sanitized and a row inserted; the column name is UNIQUE, so the insert
\* of a name that is there already fails
CreateSession(ss, name) ==
    LET cleared == InactivateSessions(ss)
        san == SanitizeSessionName(name)
    IN  IF san.err THEN [err |-> TRUE, sessions |-> cleared]
        ELSE IF \E i \in 1..Len(cleared) : cleared[i].name = san.name
        THEN [err |-> TRUE, sessions |-> cleared]
        ELSE [err |-> FALSE,
              sessions |-> Append(cleared,
                                  [name |-> san.name, state |-> "active"])]

\* AttachSession: the row is looked up by the name as given; when it is
\* there the active rows are inactivated and that row is activated
AttachSession(ss, name) ==
    IF ~\E i \in 1..Len(ss) : ss[i].name = name THEN [err |-> TRUE, sessions |-> ss]
    ELSE [err |-> FALSE,
          sessions |-> [i \in 1..Len(ss) |->
                           IF ss[i].name = name
                           THEN [ss[i] EXCEPT !.state = "active"]
                           ELSE InactivateSessions(ss)[i]]]

\* DELETE FROM sessions WHERE state = 'active'
KillSession(ss) ==
    LET keep(r) == r.state # "active" IN SelectSeq(ss, keep)

\* strings.HasSuffix on names made of a stem and its dotted endings
HasSuffix(name, suffix) ==
    /\ Len(name) >= Len(suffix)
    /\ SubSeq(name, Len(name) - Len(suffix) + 1, Len(name)) = suffix

\* the objects under the prefix of the bucket, by the base names of their keys
S3Listings ==
    { {}, {<<"a", ".log">>, <<"b", ".log", ".gz">>},
      {<<"a", ".log">>, <<"c", ".csv">>, <<"d", ".csv">>} }

\* the files the COPY statement cannot read
BadFiles == {<<"d", ".csv">>, <<"bad", ".log">>}

\* the lists of file names the local import reads from its standard input
LocalBatches ==
    { << <<"a", ".log">> >>, << <<"bad", ".log">>, <<"a", ".log">> >> }

\* ImportLogFile: the COPY into the table of the active session succeeds
\* when there is an active session, its table exists and the file reads
ImportLogFile(ss, tbls, logFilePath) ==
    LET act == GetActiveSession(ss)
    IN  /\ ~act.err
        /\ TableName(act.name) \in tbls
        /\ logFilePath \notin BadFiles

\* the files ImportDirectoryLogs selects from the directory
DirectoryLogFiles(files) == {f \in files : HasSuffix(f, <<".csv">>)}

\* the files importCmd counts for its progress bar and its report
CountedFiles(files) ==
    {f \in files : HasSuffix(f, <<".log">>) \/ HasSuffix(f, <<".log", ".gz">>)}

\* session create NAME: CreateSession, whose error is only printed, then
\* the log table of the session that is active is created if it is missing
SessionCreate ==
    /\ mode = "session"
    /\ Len(sessions) < MaxSessions
    /\ \E name \in SessionNames :
          LET r == CreateSession(sessions, name)
              act == GetActiveSession(r.sessions)
          IN  /\ sessions' = r.sessions
              /\ tables' = IF act.err THEN tables
                           ELSE tables \cup {TableName(act.name)}
              /\ lastCmd' = [op |-> "create", arg |-> name, ok |-> ~r.err]
              /\ lastSwitch' = [op |-> "create", arg |-> name, ok |-> ~r.err]
    /\ UNCHANGED << mode, file, filters, numWorkers, mainPc, err, prodPc, scanned,
                    lineChan, lineClosed, workerPc, workerLine,
                    totalEntriesProcessed, wg, entryChan, entryClosed, closerPc,
                    sinkActive, sunk, pushed, crashed, entriesBefore, counted,
                    dropped, sinkReturnsLeft, filterCalls, filterLog, cliPc,
                    flags, filenames, fileIdx, entries, totalEntriesFound,
                    outcome, usedTable, dirFiles, imported, fileCount, termWidth,
                    headers, colWidths, tablePc, col, text, wrapped >>

\* session attach NAME
SessionAttach ==
    /\ mode = "session"
    /\ \E name \in SessionNames :
          LET r == AttachSession(sessions, name)
          IN  /\ sessions' = r.sessions
              /\ lastCmd' = [op |-> "attach", arg |-> name, ok |-> ~r.err]
              /\ lastSwitch' = IF r.err THEN lastSwitch
                               ELSE [op |-> "attach", arg |-> name, ok |-> TRUE]
    /\ UNCHANGED << mode, file, filters, numWorkers, mainPc, err, prodPc, scanned,
                    lineChan, lineClosed, workerPc, workerLine,
                    totalEntriesProcessed, wg, entryChan, entryClosed, closerPc,
                    sinkActive, sunk, pushed, crashed, entriesBefore, counted,
                    dropped, sinkReturnsLeft, filterCalls, filterLog, cliPc,
                    flags, filenames, fileIdx, entries, totalEntriesFound,
                    outcome, tables, usedTable, dirFiles, imported, fileCount,
                    termWidth, headers, colWidths, tablePc, col, text, wrapped >>

\* session kill: the table of the active session is dropped and its row
\* deleted; without an active session nothing happens
SessionKill ==
    /\ mode = "session"
    /\ LET act == GetActiveSession(sessions)
       IN  IF act.err
           THEN /\ lastCmd' = [op |-> "kill", arg |-> << >>, ok |-> FALSE]
                /\ UNCHANGED << sessions, tables, lastSwitch >>
           ELSE /\ tables' = tables \ {TableName(act.name)}
                /\ sessions' = KillSession(sessions)
                /\ lastCmd' = [op |-> "kill", arg |-> << >>, ok |-> TRUE]
                /\ lastSwitch' = [op |-> "kill", arg |-> << >>, ok |-> TRUE]
    /\ UNCHANGED << mode, file, filters, numWorkers, mainPc, err, prodPc, scanned,
                    lineChan, lineClosed, workerPc, workerLine,
                    totalEntriesProcessed, wg, entryChan, entryClosed, closerPc,
                    sinkActive, sunk, pushed, crashed, entriesBefore, counted,
                    dropped, sinkReturnsLeft, filterCalls, filterLog, cliPc,
                    flags, filenames, fileIdx, entries, totalEntriesFound,
                    outcome, usedTable, dirFiles, imported, fileCount, termWidth,
                    headers, colWidths, tablePc, col, text, wrapped >>

\* import --source=local: every file of the list is tried, a failure is
\* printed and the loop goes on; the report counts the successes
ImportLocal ==
    /\ mode = "session"
    /\ \E files \in LocalBatches :
          LET act == GetActiveSession(sessions)
              done == {files[i] : i \in {j \in 1..Len(files) :
                                   ImportLogFile(sessions, tables, files[j])}}
          IN  IF act.err
              THEN /\ lastCmd' = [op |-> "import", arg |-> << >>, ok |-> FALSE]
                   /\ UNCHANGED << usedTable, imported, fileCount >>
              ELSE /\ lastCmd' = [op |-> "import", arg |-> << >>, ok |-> TRUE]
                   /\ usedTable' = TableName(act.name)
                   /\ imported' = done
                   /\ fileCount' = Cardinality(done)
    /\ UNCHANGED << mode, file, filters, numWorkers, mainPc, err, prodPc, scanned,
                    lineChan, lineClosed, workerPc, workerLine,
                    totalEntriesProcessed, wg, entryChan, entryClosed, closerPc,
                    sinkActive, sunk, pushed, crashed, entriesBefore, counted,
                    dropped, sinkReturnsLeft, filterCalls, filterLog, cliPc,
                    flags, filenames, fileIdx, entries, totalEntriesFound,
                    outcome, sessions, tables, lastSwitch, dirFiles, termWidth,
                    headers, colWidths, tablePc, col, text, wrapped >>

\* query SQL: the first alb_logs of the statement is replaced by the name
\* of the table of the active session
Query ==
    /\ mode = "session"
    /\ LET act == GetActiveSession(sessions)
       IN  IF act.err
           THEN /\ lastCmd' = [op |-> "query", arg |-> << >>, ok |-> FALSE]
                /\ UNCHANGED usedTable
           ELSE /\ lastCmd' = [op |-> "query", arg |-> << >>,
                               ok |-> TableName(act.name) \in tables]
                /\ usedTable' = TableName(act.name)
    /\ UNCHANGED << mode, file, filters, numWorkers, mainPc, err, prodPc, scanned,
                    lineChan, lineClosed, workerPc, workerLine,
                    totalEntriesProcessed, wg, entryChan, entryClosed, closerPc,
                    sinkActive, sunk, pushed, crashed, entriesBefore, counted,
                    dropped, sinkReturnsLeft, filterCalls, filterLog, cliPc,
                    flags, filenames, fileIdx, entries, totalEntriesFound,
                    outcome, sessions, tables, lastSwitch, dirFiles, imported,
                    fileCount, termWidth, headers, colWidths, tablePc, col, text,
                    wrapped >>

\* import --source=s3: the objects are downloaded into the directory, the
\* files ending in .log or .log.gz are counted, ImportDirectoryLogs runs
\* over the directory and the count is reported as imported
ImportS3 ==
    /\ mode = "session"
    /\ \E objects \in S3Listings :
          LET files == dirFiles \cup objects
              act == GetActiveSession(sessions)
          IN  /\ dirFiles' = files
              /\ IF act.err
                 THEN /\ lastCmd' = [op |-> "imports3", arg |-> << >>, ok |-> FALSE]
                      /\ UNCHANGED << usedTable, imported, fileCount >>
                 ELSE /\ lastCmd' = [op |-> "imports3", arg |-> << >>, ok |-> TRUE]
                      /\ usedTable' = TableName(act.name)
                      /\ imported' = {f \in DirectoryLogFiles(files) :
                                         ImportLogFile(sessions, tables, f)}
                      /\ fileCount' = Cardinality(CountedFiles(files))
    /\ UNCHANGED << mode, file, filters, numWorkers, mainPc, err, prodPc, scanned,
                    lineChan, lineClosed, workerPc, workerLine,
                    totalEntriesProcessed, wg, entryChan, entryClosed, closerPc,
                    sinkActive, sunk, pushed, crashed, entriesBefore, counted,
                    dropped, sinkReturnsLeft, filterCalls, filterLog, cliPc,
                    flags, filenames, fileIdx, entries, totalEntriesFound,
                    outcome, sessions, tables, lastSwitch, termWidth, headers,
                    colWidths, tablePc, col, text, wrapped >>

\* --------------------------------------------------------- the result table
\* Texts are sequences of one-byte characters, so the number of runes of a
\* text is its length.  Newline is the line break wrapText writes.
Newline == "\n"

\* integer division of Go: the quotient is truncated toward zero
GoDiv(a, b) == IF a >= 0 THEN a \div b ELSE -((-a) \div b)

\* the width NewTable works with: the terminal width less the margin, or
\* the fallback when the terminal width cannot be had
TableWidth(w) == IF w < 0 THEN FallbackWidth ELSE w - TermMargin

\* the width NewTable gives every column
ColWidth(w, n) == GoDiv(TableWidth(w), n) - ColPadding

\* the column names of the modelled result sets
HeaderTexts == { << >>, <<"a", "b">>, <<"a", "b", "c", "d">> }

HeaderLists == UNION {[1..n -> HeaderTexts] : n \in 1..MaxCols}

\* the lines of a text, cut at its line breaks
RECURSIVE SplitLines(_, _)
SplitLines(t, cur) ==
    IF t = << >> THEN <<cur>>
    ELSE IF Head(t) = Newline THEN <<cur>> \o SplitLines(Tail(t), << >>)
    ELSE SplitLines(Tail(t), Append(cur, Head(t)))

\* NewTable up to its loop over the headers: the widths are computed
NewTable ==
    /\ mode = "table" /\ tablePc = "start"
    /\ colWidths' = [i \in 1..Len(headers) |-> ColWidth(termWidth, Len(headers))]
    /\ col' = 1
    /\ tablePc' = "wrapText"
    /\ UNCHANGED << mode, file, filters, numWorkers, mainPc, err, prodPc, scanned,
                    lineChan, lineClosed, workerPc, workerLine,
                    totalEntriesProcessed, wg, entryChan, entryClosed, closerPc,
                    sinkActive, sunk, pushed, crashed, entriesBefore, counted,
                    dropped, sinkReturnsLeft, filterCalls, filterLog, cliPc,
                    flags, filenames, fileIdx, entries, totalEntriesFound,
                    outcome, sessions, tables, lastCmd, lastSwitch, usedTable,
                    dirFiles, imported, fileCount, termWidth, headers, text,
                    wrapped >>

\* NewTable has the wrapped header back and goes on to the next header
HeaderDone(result) ==
    /\ headers' = [headers EXCEPT ![col] = result]
    /\ col' = col + 1
    /\ tablePc' = IF col = Len(headers) THEN "built" ELSE "wrapText"
    /\ text' = << >>
    /\ wrapped' = << >>

\* wrapText(header, colWidths[i]) is entered: a text of at most width runes
\* is returned as it is
WrapTextEnter ==
    /\ mode = "table" /\ tablePc = "wrapText"
    /\ IF Len(headers[col]) <= colWidths[col]
       THEN HeaderDone(headers[col])
       ELSE /\ text' = headers[col]
            /\ wrapped' = << >>
            /\ tablePc' = "wrapLoop"
            /\ UNCHANGED << headers, col >>
    /\ UNCHANGED << mode, file, filters, numWorkers, mainPc, err, prodPc, scanned,
                    lineChan, lineClosed, workerPc, workerLine,
                    totalEntriesProcessed, wg, entryChan, entryClosed, closerPc,
                    sinkActive, sunk, pushed, crashed, entriesBefore, counted,
                    dropped, sinkReturnsLeft, filterCalls, filterLog, cliPc,
                    flags, filenames, fileIdx, entries, totalEntriesFound,
                    outcome, sessions, tables, lastCmd, lastSwitch, usedTable,
                    dirFiles, imported, fileCount, termWidth, colWidths >>

\* one test of the loop condition of wrapText and what follows it: while
\* the text is longer than width, text[:width] and a line break are written
\* and the text goes on from width (slicing with a negative bound panics);
\* else the rest is written and the string returned
WrapTextLoop ==
    /\ mode = "table" /\ tablePc = "wrapLoop"
    /\ LET width == colWidths[col]
       IN  IF Len(text) > width
           THEN IF width < 0
                THEN /\ tablePc' = "panic"
                     /\ UNCHANGED << headers, col, text, wrapped >>
                ELSE /\ Len(wrapped) < MaxWrapLines * (Len(headers[col]) + 1)
                     /\ wrapped' = wrapped \o SubSeq(text, 1, width) \o <<Newline>>
                     /\ text' = SubSeq(text, width + 1, Len(text))
                     /\ UNCHANGED << headers, col, tablePc >>
           ELSE HeaderDone(wrapped \o text)
    /\ UNCHANGED << mode, file, filters, numWorkers, mainPc, err, prodPc, scanned,
                    lineChan, lineClosed, workerPc, workerLine,
                    totalEntriesProcessed, wg, entryChan, entryClosed, closerPc,
                    sinkActive, sunk, pushed, crashed, entriesBefore, counted,
                    dropped, sinkReturnsLeft, filterCalls, filterLog, cliPc,
                    flags, filenames, fileIdx, entries, totalEntriesFound,
                    outcome, sessions, tables, lastCmd, lastSwitch, usedTable,
                    dirFiles, imported, fileCount, termWidth, colWidths >>

\* ---------------------------------------------------------- specifications
NextConc ==
    \/ Open
    \/ GetReader
    \/ Spawn
    \/ MainRecv
    \/ SinkReturn
    \/ MainRangeEnd
    \/ CloseReader
    \/ ProducerScan
    \/ ProducerSend
    \/ ProducerClose
    \/ \E w \in Workers : WorkerRecv(w)
    \/ \E w \in Workers : WorkerExit(w)
    \/ \E w \in Workers : WorkerCount(w)
    \/ \E w \in Workers : WorkerParse(w)
    \/ \E w \in Workers : WorkerSend(w)
    \/ CloserClose

NextSeq ==
    \/ SeqOpen
    \/ SeqLine
    \/ SeqSinkReturn
    \/ SeqEnd

Next == NextConc \/ NextSeq

Spec == Init /\ [][Next]_vars

TypeOK ==
    /\ mainPc \in {"notcalled", "open", "getReader", "spawn", "drain", "sink",
                   "closeReader", "returned", "seqScan", "seqSink"}
    /\ cliPc \in {"lib", "flags", "loop", "parsing", "output", "exit0", "exit1"}
    /\ outcome \in {"none", "invalid filter", "no input files", "parse error",
                    "no matches", "printed"}
    /\ filters \in FilterChains
    /\ totalEntriesFound = Len(entries)
    /\ err \in {"none", "nil", "error"}
    /\ wg \in 0..MaxWorkers
    /\ Len(lineChan) <= LineChanCap
    /\ Len(entryChan) <= EntryChanCap

\* ------------------------------------------- the pipeline under a slow sink
\* a long file (one short line, then matching lines) read through the
\* concurrent pipeline with one worker while processor stops returning after
\* a few calls; the file is long enough for the dropped line, the entries
\* processor was invoked with, both channels full, the worker and the
\* producer, with BPExtraLines lines to spare
BPLines ==
    [n \in 1..(LineChanCap + EntryChanCap + 4 + BPSinkReturns + BPExtraLines) |->
        IF n = 1 THEN "short20" ELSE "ok25"]

InitBP ==
    \E budget \in 0..BPSinkReturns :
        InitWith("conc",
                 [open |-> "ok", gz |-> FALSE, lines |-> BPLines,
                  fail |-> "none", failAfter |-> 0],
                 << >>, 1, 0, budget)

NextBP ==
    \/ Open
    \/ GetReader
    \/ Spawn
    \/ MainRecv
    \/ SinkReturn
    \/ ProducerScan
    \/ ProducerSend
    \/ \E w \in Workers : WorkerRecv(w)
    \/ \E w \in Workers : WorkerCount(w)
    \/ \E w \in Workers : WorkerParse(w)
    \/ \E w \in Workers : WorkerSend(w)

SpecBP == InitBP /\ [][NextBP]_vars

\* --------------------------------------- the pipeline under fair scheduling
\* every goroutine that can take a step eventually takes one, and processor
\* always returns
InitFair ==
    \E f \in Files, fs \in FilterLists, w \in 1..MaxWorkers :
        InitWith("conc", f, fs, w, 0, -1)

MainStep ==
    Open \/ GetReader \/ Spawn \/ MainRecv \/ SinkReturn \/ MainRangeEnd \/ CloseReader

ProducerStep == ProducerScan \/ ProducerSend \/ ProducerClose

WorkerStep(w) ==
    WorkerRecv(w) \/ WorkerExit(w) \/ WorkerCount(w) \/ WorkerParse(w) \/ WorkerSend(w)

FairSpec ==
    /\ InitFair
    /\ [][NextConc]_vars
    /\ WF_vars(MainStep)
    /\ WF_vars(ProducerStep)
    /\ \A w \in Workers : WF_vars(WorkerStep(w))
    /\ WF_vars(CloserClose)

\* ------------------------------------------- one worker, every filter list
\* the concurrent ParseLogs with one worker on plain files of one or two
\* lines, under every filter list of the model
FilterLineSeqs ==
    {<<k>> : k \in LineKinds \ {"gzraw"}}
    \cup {<<"ok25", "ok25_404">>, <<"tpt_dash", "ok25">>}

InitFilter ==
    \E ls \in FilterLineSeqs, fs \in FilterChains :
        InitWith("conc",
                 [open |-> "ok", gz |-> FALSE, lines |-> ls,
                  fail |-> "none", failAfter |-> 0],
                 fs, 1, 0, -1)

SpecFilter == InitFilter /\ [][NextConc]_vars

\* ------------------------------------------------------- a run of the tool
\* main from its first statement: flags and file arguments are given, the
\* host has one or more processors, nothing has been read yet
InitCli ==
    \E fl \in CliFlagSets, fns \in CliBatches, w \in 1..MaxWorkers :
        /\ mode = "conc"
        /\ file = NoFile("unset")
        /\ filters = << >>
        /\ numWorkers = w
        /\ mainPc = "notcalled"
        /\ err = "none"
        /\ prodPc = "unstarted"
        /\ scanned = 0
        /\ lineChan = << >>
        /\ lineClosed = FALSE
        /\ workerPc = [w2 \in Workers |-> "unstarted"]
        /\ workerLine = [w2 \in Workers |-> 0]
        /\ totalEntriesProcessed = 0
        /\ entriesBefore = 0
        /\ counted = << >>
        /\ filterCalls = << >>
        /\ filterLog = << >>
        /\ dropped = 0
        /\ sinkReturnsLeft = -1
        /\ wg = 0
        /\ entryChan = << >>
        /\ entryClosed = FALSE
        /\ closerPc = "unstarted"
        /\ sinkActive = 0
        /\ sunk = << >>
        /\ pushed = << >>
        /\ crashed = FALSE
        /\ cliPc = "flags"
        /\ flags = fl
        /\ filenames = fns
        /\ fileIdx = 1
        /\ entries = << >>
        /\ totalEntriesFound = 0
        /\ outcome = "none"
        /\ SessionsFresh
        /\ NoTable

NextCli ==
    \/ CliFlags
    \/ CliCall
    \/ CliReturn
    \/ CliOutput
    \/ NextConc

SpecCli == InitCli /\ [][NextCli]_vars

\* ------------------------------------------------ runs of the session tool
\* a sequence of commands of the session tool, each a process of its own,
\* over one sessions table and one database, both empty at the start
InitSession == InitWith("session", NoFile("unset"), << >>, 0, 0, -1)

NextSession ==
    \/ SessionCreate
    \/ SessionAttach
    \/ SessionKill
    \/ ImportLocal
    \/ Query
    \/ ImportS3

SpecSession == InitSession /\ [][NextSession]_vars

\* ---------------------------------------------------- building a table
\* displayResults calls NewTable with the column names of a result set, on
\* a terminal of some width or without a terminal
InitTable ==
    \E w \in (-1)..MaxTermWidth, hs \in HeaderLists :
        /\ mode = "table"
        /\ file = NoFile("unset")
        /\ filters = << >>
        /\ numWorkers = 0
        /\ mainPc = "notcalled"
        /\ err = "none"
        /\ prodPc = "unstarted"
        /\ scanned = 0
        /\ lineChan = << >>
        /\ lineClosed = FALSE
        /\ workerPc = [w2 \in Workers |-> "unstarted"]
        /\ workerLine = [w2 \in Workers |-> 0]
        /\ totalEntriesProcessed = 0
        /\ entriesBefore = 0
        /\ counted = << >>
        /\ dropped = 0
        /\ sinkReturnsLeft = -1
        /\ wg = 0
        /\ entryChan = << >>
        /\ entryClosed = FALSE
        /\ closerPc = "unstarted"
        /\ sinkActive = 0
        /\ sunk = << >>
        /\ pushed = << >>
        /\ crashed = FALSE
        /\ filterCalls = << >>
        /\ filterLog = << >>
        /\ cliPc = "lib"
        /\ flags = NoFlags
        /\ filenames = << >>
        /\ fileIdx = 0
        /\ entries = << >>
        /\ totalEntriesFound = 0
        /\ outcome = "none"
        /\ SessionsFresh
        /\ termWidth = w
        /\ headers = hs
        /\ colWidths = << >>
        /\ tablePc = "start"
        /\ col = 0
        /\ text = << >>
        /\ wrapped = << >>

NextTable ==
    \/ NewTable
    \/ WrapTextEnter
    \/ WrapTextLoop

SpecTable == InitTable /\ [][NextTable]_vars

\* =================================================================== claims
RECURSIVE SeqToBag(_)
SeqToBag(q) ==
    IF q = << >> THEN EmptyBag ELSE SetToBag({Head(q)}) (+) SeqToBag(Tail(q))

Readable(f) == f.open = "ok" /\ f.fail = "none"

NoDuplicates(q) == \A i, j \in 1..Len(q) : q[i] = q[j] => i = j

\* the line numbers the sequential ParseLogs invokes processor with when it
\* reads file f from line n on: it stops at the scan limit and at a panic
RECURSIVE SeqSinkCalls(_, _, _)
SeqSinkCalls(f, fs, n) ==
    IF f.open # "ok" \/ n > SeqScanLimit(f) THEN << >>
    ELSE LET out == Outcomes[RawLines(f)[n]][fs]
         IN  IF out = "panic" THEN << >>
             ELSE IF out = "entry" THEN <<n>> \o SeqSinkCalls(f, fs, n + 1)
             ELSE SeqSinkCalls(f, fs, n + 1)

\* the records behind a sequence of line numbers of the given lines
RecordsOf(nums, lines) == [i \in 1..Len(nums) |-> Entries[lines[nums[i]]]]

\* C1: when the concurrent ParseLogs has returned for an existing file that
\* reads without failure, with one or more workers, the counter has grown by
\* exactly the number of lines and every line was counted exactly once
C1_CounterExact ==
    (mode = "conc" /\ mainPc = "returned" /\ Readable(file) /\ numWorkers >= 1)
        => /\ totalEntriesProcessed = entriesBefore +
                  (IF getReader(file) = "error" THEN 0 ELSE Len(file.lines))
           /\ getReader(file) # "error" => \A n \in 1..Len(file.lines) : counted[n] = 1

C1_Witness ==
    /\ mode = "conc" /\ mainPc = "returned" /\ Readable(file)
    /\ numWorkers = MaxWorkers /\ Len(file.lines) = MaxLines
    /\ file.lines[1] = "short20"
    /\ totalEntriesProcessed = entriesBefore + MaxLines
    /\ entriesBefore > 0

\* C2: once the concurrent ParseLogs has returned, the multiset of records
\* handed to the sink equals the multiset the sequential ParseLogs hands to
\* its sink for the same file and filters
C2_SameMultisetAsSequential ==
    (mode = "conc" /\ mainPc = "returned" /\ numWorkers >= 1)
        => SeqToBag(RecordsOf(sunk, file.lines))
           = SeqToBag(RecordsOf(SeqSinkCalls(file, filters, 1), RawLines(file)))

\* C3: entryChan is closed only when every worker has finished, every entry
\* sent on it is a distinct one, the entries delivered so far followed by
\* those still queued are exactly the entries sent, and when ParseLogs
\* returns after the pipeline ran nothing is left queued
C3_NoEntryLostOrDuplicated ==
    mode = "conc" =>
        /\ entryClosed => \A w \in Workers : workerPc[w] \in {"unstarted", "done"}
        /\ NoDuplicates(pushed)
        /\ sunk \o entryChan = pushed
        /\ mainPc \in {"closeReader", "returned"} =>
               (entryChan = << >> /\ sunk = pushed /\ sinkActive = 0)

C3_Witness ==
    /\ mode = "conc" /\ mainPc = "returned" /\ numWorkers >= 2
    /\ Len(pushed) >= 2 /\ sunk = pushed /\ entryClosed

NoneRunning ==
    /\ prodPc \in {"unstarted", "done"}
    /\ closerPc \in {"unstarted", "done"}
    /\ \A w \in Workers : workerPc[w] \in {"unstarted", "done"}

\* C4: under fair scheduling, with at least one worker and a sink that always
\* returns, the concurrent ParseLogs eventually returns, and when it has
\* returned the producer, every worker and the closing goroutine are finished
C4_EventuallyReturns ==
    /\ <>(mainPc = "returned")
    /\ [](mainPc = "returned" => NoneRunning)

\* C5: in the concurrent pipeline at most one invocation of processor is in
\* progress at any moment, and it is the calling routine that is in it
C5_SingleConsumer ==
    mode = "conc" => (sinkActive <= 1 /\ (sinkActive = 1 => mainPc = "sink"))

C5_Witness ==
    /\ mode = "conc" /\ sinkActive = 1 /\ numWorkers >= 2
    /\ \E w \in Workers : workerPc[w] = "send"

\* lines read from the source that were neither dropped nor handed to the sink
InFlight == scanned - dropped - Len(sunk)

\* C6: both channels hold at most 100 items and the lines read but neither
\* dropped nor handed to the sink number at most 100 + 100 + W + 1
C6_BoundedInFlight ==
    /\ LineChanCap = 100 /\ EntryChanCap = 100
    /\ Len(lineChan) <= LineChanCap /\ Len(entryChan) <= EntryChanCap
    /\ InFlight <= LineChanCap + EntryChanCap + numWorkers + 1

\* the sink has stopped returning, everything is full and the producer is
\* blocked in its send with lines of the file still unread
C6_Witness ==
    /\ mainPc = "sink" /\ sinkReturnsLeft = 0
    /\ Len(lineChan) = LineChanCap /\ Len(entryChan) = EntryChanCap
    /\ prodPc = "send" /\ scanned < Len(file.lines)
    /\ InFlight = LineChanCap + EntryChanCap + numWorkers + 1
    /\ ~ENABLED ProducerSend /\ ~ENABLED ProducerScan

TailCount(e) ==
    Cardinality({t \in {"TargetPortList", "TargetStatusCodeList",
                        "Classification", "ClassficationReason"} : e[t] # << >>})

\* C7: whenever a worker has mapped a line with a valid timestamp, a line of
\* 25 tokens gave a record with no tail field set, a line of 26 tokens a
\* record with only the target port list set, a line of 29 tokens a record
\* with all four set
C7_TailGating ==
    \A w \in Workers :
        (workerPc[w] \in {"send", "panic"} /\ workerLine[w] # 0) =>
            LET kind == LineAt(workerLine[w])
                n == Len(Fields[kind])
            IN  n \in {25, 26, 29} =>
                    /\ workerPc[w] = "send"
                    /\ n = 25 => TailCount(Entries[kind]) = 0
                    /\ n = 26 => (TailCount(Entries[kind]) = 1
                                  /\ Entries[kind].TargetPortList # << >>)
                    /\ n = 29 => TailCount(Entries[kind]) = 4

\* C8: no line crashes a worker: after a worker has processed a line the
\* process is alive and the line is either dropped or held as one record
C8_NoLineCrashes ==
    mode = "conc" =>
        /\ ~crashed
        /\ \A w \in Workers : workerPc[w] # "panic"

\* reading the file fails part-way in the current mode: the sequential mode
\* reads the raw bytes, so only the concurrent mode can meet damaged
\* compressed data
ReadFails ==
    /\ file.open = "ok"
    /\ IF mode = "seq" THEN file.fail \in {"io", "toolong"}
       ELSE file.fail # "none" /\ numWorkers >= 1

\* C9: when reading an existing file fails part-way, ParseLogs returns a
\* non-nil error, in the concurrent and in the sequential mode
C9_ReadFailureIsReported ==
    (mainPc = "returned" /\ ReadFails) => err = "error"

\* C10: for a path that does not exist ParseLogs returns nil, the sink is
\* never invoked, no worker is started and the counter keeps its value
C10_MissingFile ==
    file.open = "notexist" =>
        /\ mainPc = "returned" => err = "nil"
        /\ sunk = << >> /\ sinkActive = 0
        /\ \A w \in Workers : workerPc[w] = "unstarted"
        /\ prodPc = "unstarted" /\ closerPc = "unstarted"
        /\ totalEntriesProcessed = entriesBefore

C10_Witness ==
    /\ file.open = "notexist" /\ mode = "conc" /\ mainPc = "returned"
    /\ err = "nil" /\ numWorkers >= 1 /\ entriesBefore > 0

\* ------------------------------------------------------------- C11 .. C20
\* the numbers of the lines the current mode reads
LineNumbers ==
    1..(IF mode = "seq" THEN Len(RawLines(file)) ELSE Len(file.lines))

\* the elements of a sequence
Range(q) == {q[i] : i \in 1..Len(q)}

\* the concurrent ParseLogs has returned from a run of the whole pipeline on
\* a file that reads without failure
RanToEnd ==
    /\ mode = "conc" /\ mainPc = "returned" /\ Readable(file)
    /\ numWorkers >= 1 /\ getReader(file) # "error"

\* C11: for an existing readable file from which nothing matched, a file
\* without lines included, ParseLogs returns no error; and a run of the tool
\* over such files that has ended with nothing collected has printed that no
\* matching entries were found
C11_NoMatchIsNotAnError ==
    /\ (cliPc = "parsing" /\ mainPc = "returned" /\ Readable(file)
          /\ sunk = << >>) => err = "nil"
    /\ (cliPc \in {"exit0", "exit1"} /\ ~CliFilters(flags).exit
          /\ filenames # << >> /\ entries = << >>
          /\ \A k \in 1..Len(filenames) : Readable(filenames[k]))
            => outcome = "no matches"

\* C12: a line with fewer than 25 tokens never becomes a record: no filter
\* predicate is invoked for it, no worker holds it as an entry, it is never
\* sent on and never reaches the sink; it is counted at most once, and
\* exactly once when the run is over
C12_ShortLineRejectedAndCounted ==
    \A n \in LineNumbers :
        Len(Fields[LineAt(n)]) < MinFields =>
            /\ filterCalls[n] = 0
            /\ n \notin Range(pushed) \cup Range(sunk) \cup Range(entryChan)
            /\ \A w \in Workers :
                   workerLine[w] = n => workerPc[w] \in {"count", "parse"}
            /\ mode = "conc" => counted[n] <= 1
            /\ RanToEnd => counted[n] = 1

C12_Witness ==
    /\ RanToEnd /\ numWorkers = MaxWorkers /\ filters # << >>
    /\ Len(file.lines) = MaxLines /\ LineAt(1) = "short20"
    /\ Len(Fields["short20"]) = 20
    /\ counted[1] = 1 /\ sunk # << >>
    /\ totalEntriesProcessed = entriesBefore + MaxLines

\* line n has 25 tokens or more and its token 1 is not a timestamp
BadTimestamp(n) ==
    /\ Len(Fields[LineAt(n)]) >= MinFields
    /\ ~TimeParseOk(At(Fields[LineAt(n)], 1))

\* C13: a line of 25 or more tokens with an invalid timestamp never becomes
\* a record and never reaches the sink, the worker that read it goes on
\* reading, and when ParseLogs has returned it returned no error, every line
\* of the file was read (and counted once in the concurrent mode) and every
\* later line that matches was handed to the sink
C13_BadTimestampDroppedSilently ==
    \A n \in LineNumbers :
        BadTimestamp(n) =>
            /\ filterCalls[n] = 0
            /\ n \notin Range(pushed) \cup Range(sunk) \cup Range(entryChan)
            /\ \A w \in Workers :
                   workerLine[w] = n => workerPc[w] \in {"count", "parse"}
            /\ (mode = "conc" /\ counted[n] = 1) =>
                   \A w \in Workers :
                       workerPc[w] = "done" => (lineClosed /\ lineChan = << >>)
            /\ (RanToEnd \/ (mode = "seq" /\ mainPc = "returned" /\ Readable(file)))
                 => /\ err = "nil"
                    /\ scanned = Cardinality(LineNumbers)
                    /\ mode = "conc" => \A m \in LineNumbers : counted[m] = 1
                    /\ \A m \in LineNumbers :
                           (m > n /\ OutcomeAt(m) = "entry") => m \in Range(sunk)

C13_Witness ==
    /\ RanToEnd /\ file.lines = <<"badts25", "ok25">>
    /\ err = "nil" /\ sunk = <<2>> /\ counted[1] = 1 /\ counted[2] = 1
    /\ totalEntriesProcessed = entriesBefore + 2

\* no token holds a quote character
WellFormed(fields) ==
    \A i \in 1..Len(fields) : \A j \in 1..Len(fields[i]) : fields[i][j] # Quote

\* the positional fields of a record, in the order of their tokens
Positional(e) ==
    << e.Type, e.Timestamp, e.ELB, e.Client, e.Target, e.RequestProcessingTime,
       e.TargetProcessingTime, e.ResponseProcessingTime, e.ELBStatusCode,
       e.TargetStatusCode, e.ReceivedBytes, e.SentBytes, e.Request, e.UserAgent,
       e.SSLConnectionCipher, e.SSLProtocol, e.TargetGroupArn, e.TraceID,
       e.DomainName, e.ChosenCertArn, e.MatchedRulePriority,
       e.RequestCreationTime, e.ActionsExecuted, e.RedirectURL,
       e.LambdaErrorReason >>

\* C14: whenever a worker has mapped a line of 25 or more quote-free tokens
\* with a valid timestamp it holds a record, and the positional fields 0
\* and 2..24 of that record are the tokens 0 and 2..24 and its timestamp is
\* the instant token 1 denotes
C14_RecordEqualsTokens ==
    \A w \in Workers :
        (workerPc[w] \in {"send", "panic"} /\ workerLine[w] # 0) =>
            LET kind == LineAt(workerLine[w])
                fields == Fields[kind]
            IN  (Len(fields) >= MinFields /\ TimeParseOk(At(fields, 1))
                 /\ WellFormed(fields)) =>
                    /\ workerPc[w] = "send"
                    /\ \A i \in (0..24) \ {1} :
                           Positional(Entries[kind])[i + 1] = At(fields, i)
                    /\ Entries[kind].Timestamp = TimeParse(At(fields, 1))

\* the record of a line of this kind passes every predicate of the list
PassesAll(kind, fs) ==
    \A k \in 1..Len(fs) : ApplyFilter(fs[k], Entries[kind])

\* the mapper makes a record of a line of this kind
Mapped(kind) == kind \in DOMAIN Entries

\* C15: every entry sent towards the sink is a mapped record for which every
\* predicate of the filter list returns true, and when the run is over
\* every line whose record passes every predicate was handed to the sink;
\* under the empty list that is every mapped record
C15_SinkIffAllPredicatesPass ==
    (mode = "conc" /\ cliPc = "lib") =>
        /\ \A n \in Range(pushed) \cup Range(sunk) :
               Mapped(LineAt(n)) /\ PassesAll(LineAt(n), filters)
        /\ RanToEnd =>
               \A n \in LineNumbers :
                   (Mapped(LineAt(n)) /\ PassesAll(LineAt(n), filters))
                       => n \in Range(sunk)

C15_Witness ==
    /\ RanToEnd /\ cliPc = "lib"
    /\ file.lines = <<"ok25", "ok25_404">>
    /\ filters = << FilterByELBStatusCode(<<"200">>),
                    FilterByTargetStatusCode(<<"200">>) >>
    /\ sunk = <<1>> /\ filterCalls[1] = 2 /\ filterCalls[2] = 1

\* the list without its i-th predicate
RemoveAt(fs, i) == SubSeq(fs, 1, i - 1) \o SubSeq(fs, i + 1, Len(fs))

\* the numbers of the lines, from the n-th on, that a run under the filter
\* list fs hands to the sink
RECURSIVE MatchedFrom(_, _, _)
MatchedFrom(lines, fs, n) ==
    IF n > Len(lines) THEN << >>
    ELSE IF ProcessLine(LineText(lines[n]), fs).kind = "entry"
         THEN <<n>> \o MatchedFrom(lines, fs, n + 1)
         ELSE MatchedFrom(lines, fs, n + 1)

\* C16: when a run is over, the multiset of records it handed to the sink
\* is contained in the multiset a run on the same file hands to the sink
\* under the filter list with any one predicate removed
C16_RemovingAPredicateNeverShrinks ==
    (RanToEnd /\ cliPc = "lib") =>
        \A i \in 1..Len(filters) :
            SeqToBag(RecordsOf(sunk, file.lines))
                \sqsubseteq
            SeqToBag(RecordsOf(MatchedFrom(file.lines, RemoveAt(filters, i), 1),
                               file.lines))

C16_Witness ==
    /\ RanToEnd /\ cliPc = "lib"
    /\ file.lines = <<"ok25", "ok25_404">> /\ Len(filters) = 2
    /\ sunk = <<1>>
    /\ Len(MatchedFrom(file.lines, RemoveAt(filters, 1), 1)) = 2
    /\ Len(MatchedFrom(file.lines, RemoveAt(filters, 2), 1)) = 1

\* instant ts lies in the closed range; a bound of 0 is no bound
InClosedRange(ts, start, end) ==
    (start = 0 \/ start <= ts) /\ (end = 0 \/ ts <= end)

\* C17: under a filter list that is one time-range filter, every entry sent
\* towards the sink has its timestamp in the closed range from start to
\* end, and when the run is over every mapped line whose timestamp is in
\* that range, its ends included, was handed to the sink; a zero start or
\* end bounds nothing
C17_TimeRangeIsClosed ==
    (mode = "conc" /\ cliPc = "lib" /\ Len(filters) = 1
     /\ filters[1].fn = "FilterByTime") =>
        LET start == filters[1].start
            end == filters[1].end
        IN  /\ \A n \in Range(pushed) \cup Range(sunk) :
                   InClosedRange(TimeParse(At(Fields[LineAt(n)], 1)), start, end)
            /\ RanToEnd =>
                   \A n \in LineNumbers :
                       (Mapped(LineAt(n))
                        /\ InClosedRange(TimeParse(At(Fields[LineAt(n)], 1)),
                                         start, end))
                           => n \in Range(sunk)

C17_Witness ==
    /\ RanToEnd /\ cliPc = "lib" /\ file.lines = <<"ok25">>
    /\ filters = << FilterByTime(TimeParse(<<GoodTs>>), TimeParse(<<GoodTs>>)) >>
    /\ sunk = <<1>>

\* C18: the scenario line under the URL filter .* and the ELB status filter
\* 200 gives exactly one record, whose request is GET / HTTP/1.1 without
\* quotes; under the ELB status filter 404 it gives none; and under a list
\* that is one ELB status filter a mapped line reaches the sink exactly when
\* its status token equals the filter's string
C18_ScenarioLine ==
    (RanToEnd /\ cliPc = "lib") =>
        /\ (file.lines = <<"ok25">>
            /\ filters = << FilterByURL(".*"), FilterByELBStatusCode(<<"200">>) >>)
              => /\ sunk = <<1>>
                 /\ Entries["ok25"].Request = <<"GET", Space, "/", Space, "HTTP/1.1">>
        /\ (file.lines = <<"ok25">>
            /\ filters \in { << FilterByURL(".*"), FilterByELBStatusCode(<<"404">>) >>,
                             << FilterByELBStatusCode(<<"404">>) >> })
              => sunk = << >>
        /\ \A code \in {<<"200">>, <<"404">>} :
               filters = << FilterByELBStatusCode(code) >> =>
                   \A n \in LineNumbers :
                       Mapped(LineAt(n)) =>
                           (n \in Range(sunk) <=> At(Fields[LineAt(n)], 8) = code)

C18_Witness ==
    /\ RanToEnd /\ cliPc = "lib" /\ file.lines = <<"ok25">>
    /\ filters = << FilterByURL(".*"), FilterByELBStatusCode(<<"200">>) >>
    /\ sunk = <<1>> /\ filterCalls[1] = 2

\* C19: under a filter list that is one processing-time filter, every entry
\* sent towards the sink has a target processing time that parses as a
\* number and is at least the threshold, and when the run is over every
\* mapped line whose field parses and is at least the threshold was handed
\* to the sink
C19_ProcessingTimeFailsClosed ==
    (mode = "conc" /\ cliPc = "lib" /\ Len(filters) = 1
     /\ filters[1].fn = "FilterByTargetProcessingTime") =>
        LET threshold == filters[1].processingTime
            Included(n) ==
                /\ ParseFloatOk(At(Fields[LineAt(n)], 6))
                /\ ParseFloat(At(Fields[LineAt(n)], 6)) >= threshold
        IN  /\ \A n \in Range(pushed) \cup Range(sunk) : Included(n)
            /\ RanToEnd =>
                   \A n \in LineNumbers :
                       (Mapped(LineAt(n)) /\ Included(n)) => n \in Range(sunk)

C19_Witness ==
    /\ RanToEnd /\ cliPc = "lib" /\ file.lines = <<"tpt_dash", "ok25">>
    /\ filters = << FilterByTargetProcessingTime(ParseFloat(<<"0.002">>)) >>
    /\ sunk = <<2>> /\ filterCalls[1] = 1

\* one of the filter flags is given and is not valid
FlagsInvalid(fl) ==
    \/ fl.start # << >> /\ ~TimeParseOk(fl.start)
    \/ fl.end # << >> /\ ~TimeParseOk(fl.end)
    \/ fl.url # "" /\ ~RegexpCompileOk(fl.url)
    \/ fl.ua # "" /\ ~RegexpCompileOk(fl.ua)
    \/ fl.tpt # << >> /\ ~ParseFloatOk(fl.tpt)

\* C20: in a run of the tool with a filter flag that is not valid ParseLogs
\* is never called, so no file is opened, no line is read, the counter
\* stays 0, the sink is never invoked and nothing is collected; the run
\* ends with status 1 after the message about the filter
C20_InvalidFilterStopsBeforeAnyFile ==
    (cliPc # "lib" /\ FlagsInvalid(flags)) =>
        /\ cliPc \in {"flags", "exit1"}
        /\ cliPc = "exit1" => outcome = "invalid filter"
        /\ mainPc = "notcalled" /\ fileIdx = 1
        /\ prodPc = "unstarted" /\ scanned = 0
        /\ totalEntriesProcessed = 0
        /\ sunk = << >> /\ sinkActive = 0 /\ entries = << >>

C20_Witness ==
    /\ cliPc = "exit1" /\ outcome = "invalid filter"
    /\ flags.url = ".*" /\ flags.ua = "("
    /\ Len(filenames) = MaxFiles
    /\ Readable(filenames[1]) /\ filenames[1].lines # << >>

\* ------------------------------------------------------------- C21 .. C30
\* the numbers among 1..n of the lines the current run makes an entry of
MatchedUpTo(n) == {m \in 1..n : OutcomeAt(m) = "entry"}

\* C21: in the sequential mode the sink calls made so far are the calls for
\* the matching lines among the lines read so far, each once, in the order
\* of the lines: the call for line i comes before the call for line j
\* whenever i < j
C21_SequentialOrder ==
    mode = "seq" =>
        /\ \A i, j \in 1..Len(sunk) : i < j => sunk[i] < sunk[j]
        /\ ~crashed => Range(sunk) = MatchedUpTo(scanned)

C21_Witness ==
    /\ mode = "seq" /\ mainPc = "returned" /\ ~file.gz
    /\ filters # << >> /\ Len(file.lines) = MaxLines
    /\ Len(sunk) = MaxLines /\ sunk[1] = 1 /\ sunk[MaxLines] = MaxLines

\* the pairs << k, n >> of the batch for which line n of file k, a file that
\* opens and reads without failure, passes the filters built from the flags
BatchMatches ==
    { << k, n >> \in (1..Len(filenames)) \X (1..MaxLines) :
        /\ Readable(filenames[k]) /\ getReader(filenames[k]) # "error"
        /\ n <= Len(filenames[k].lines)
        /\ Outcomes[filenames[k].lines[n]][CliFilters(flags).filters] = "entry" }

\* C24: when a run of the tool over a batch of files, with valid flags and
\* without a limit, has ended, every matching line of every file of the
\* batch that reads without failure is in the result, whether or not a file
\* before it in the batch failed
C24_BatchContinuesAfterFailure ==
    (/\ cliPc \in {"exit0", "exit1"} /\ ~crashed
     /\ ~CliFilters(flags).exit /\ flags.limit = 0)
        => BatchMatches \subseteq Range(entries)

\* C25: when the concurrent ParseLogs called with numWorkers = 0 has returned
\* for a file that reads without failure, every line of the file has been
\* counted once and the counter has grown by the number of lines
C25_ZeroWorkersUsesDefault ==
    (/\ mode = "conc" /\ mainPc = "returned" /\ Readable(file)
     /\ getReader(file) # "error" /\ numWorkers = 0)
        => /\ totalEntriesProcessed = entriesBefore + Len(file.lines)
           /\ \A n \in 1..Len(file.lines) : counted[n] = 1

C30_ShortCircuitInListOrder ==
    (mode = "conc" /\ cliPc = "lib") =>
        \A n \in DOMAIN filterLog :
            LET log == filterLog[n]
            IN  /\ Len(log) <= Len(filters)
                /\ \A i \in 1..Len(log) : log[i] = i
                /\ log # << >> => Mapped(LineAt(n))
                /\ \A i \in 1..(Len(log) - 1) :
                       ApplyFilter(filters[i], Entries[LineAt(n)])
                /\ n \in Range(pushed) \cup Range(sunk) => Len(log) = Len(filters)
                /\ (RanToEnd /\ Mapped(LineAt(n)) /\ Len(log) < Len(filters))
                      => /\ log # << >>
                         /\ ~ApplyFilter(filters[Len(log)], Entries[LineAt(n)])

C30_Witness ==
    /\ RanToEnd /\ cliPc = "lib" /\ Len(filters) = 6
    /\ \E n \in DOMAIN filterLog : filterLog[n] = <<1, 2, 3, 4>>
    /\ \E n \in DOMAIN filterLog : filterLog[n] = <<1, 2, 3, 4, 5, 6>>

\* the quotes of the line come in pairs and each pair encloses a whole
\* token: the opening quote starts the line or follows a space, the closing
\* quote ends the line or is followed by a space
QuotesEncloseTokens(line) ==
    LET before(i) == Cardinality({j \in 1..(i - 1) : line[j] = Quote})
        quotes == {i \in 1..Len(line) : line[i] = Quote}
    IN  /\ Cardinality(quotes) % 2 = 0
        /\ \A i \in quotes :
               IF before(i) % 2 = 0 THEN i = 1 \/ line[i - 1] = Space
               ELSE i = Len(line) \/ line[i + 1] = Space

\* the tokens of a line by the rule of the claim, from position i on: the
\* line is cut at the spaces outside quotes, quotes are left out, and a
\* piece is a token when it holds a symbol or a pair of quotes
RECURSIVE QuotedSplit(_, _, _, _, _)
QuotedSplit(line, i, cur, inQuote, started) ==
    IF i > Len(line) THEN (IF started THEN <<cur>> ELSE << >>)
    ELSE IF line[i] = Quote
         THEN QuotedSplit(line, i + 1, cur, ~inQuote, TRUE)
    ELSE IF line[i] = Space /\ ~inQuote
         THEN (IF started THEN <<cur>> ELSE << >>)
              \o QuotedSplit(line, i + 1, << >>, FALSE, FALSE)
    ELSE QuotedSplit(line, i + 1, Append(cur, line[i]), inQuote, TRUE)

\* C26: for every line a worker has tokenized whose quotes enclose whole
\* tokens, the tokens are, from left to right, the quoted runs without
\* their quotes (an empty run giving one empty token) and the maximal runs
\* of non-space symbols outside quotes; and in the record of such a line
\* that reached the sink the request, the user agent and every positional
\* field after them are the tokens 12, 13 and 14..24, whether or not the
\* quoted fields hold spaces
C26_TokensLeftToRight ==
    (mode = "conc" /\ cliPc = "lib") =>
        \A n \in DOMAIN counted :
            LET read == ReadText(LineAt(n))
                toks == QuotedSplit(read, 1, << >>, FALSE, FALSE)
            IN  (counted[n] >= 1 /\ QuotesEncloseTokens(read))
                  => /\ Fields[LineAt(n)] = toks
                     /\ n \in Range(sunk) =>
                            \A i \in 13..25 :
                                Positional(Entries[LineAt(n)])[i] = toks[i]

C26_Witness ==
    /\ RanToEnd /\ cliPc = "lib" /\ filters = << >>
    /\ file.lines = <<"emptyua">> /\ sunk = <<1>>
    /\ Entries["emptyua"].UserAgent = << >>
    /\ Entries["emptyua"].Request = <<"GET", Space, "/", Space, "HTTP/1.1">>
    /\ Entries["emptyua"].SSLConnectionCipher = Word("-")
    /\ Len(Fields["emptyua"]) = 25

\* the records of the lines of the content, from the n-th on, that pass the
\* filter list
RECURSIVE MatchedRecords(_, _, _)
MatchedRecords(lines, fs, n) ==
    IF n > Len(lines) THEN << >>
    ELSE IF Outcomes[lines[n]][fs] = "entry"
         THEN <<Entries[lines[n]]>> \o MatchedRecords(lines, fs, n + 1)
         ELSE MatchedRecords(lines, fs, n + 1)

\* C22: when the concurrent ParseLogs, with one or more workers, has
\* returned for a file that reads without failure, the multiset of records
\* handed to the sink and the growth of the counter are determined by the
\* content and the filter list alone, the same whether the file holds the
\* content as plain text or as a gzip stream: the records are those of the
\* matching lines of the whole content, first line included with its first
\* bytes, and the counter has grown by the number of lines; and a file with
\* content is read without error in either form
C22_GzipTransparent ==
    (/\ mode = "conc" /\ mainPc = "returned" /\ Readable(file)
     /\ numWorkers >= 1)
        => /\ SeqToBag([i \in 1..Len(sunk) |-> Entries[LineAt(sunk[i])]])
                = SeqToBag(MatchedRecords(file.lines, filters, 1))
           /\ totalEntriesProcessed = entriesBefore + Len(file.lines)
           /\ file.lines # << >> => err = "nil"

C22_Witness ==
    /\ mode = "conc" /\ mainPc = "returned" /\ Readable(file)
    /\ file.gz /\ file.lines = <<"ok25", "ok25_404">>
    /\ numWorkers = MaxWorkers /\ filters = << >> /\ err = "nil"
    /\ Len(sunk) = 2 /\ totalEntriesProcessed = entriesBefore + 2

\* the session named name is the active one and every other row is inactive
OnlyActive(name) ==
    /\ \E i \in 1..Len(sessions) :
           sessions[i].name = name /\ sessions[i].state = "active"
    /\ \A i \in 1..Len(sessions) :
           sessions[i].name # name => sessions[i].state = "inactive"

\* the last command was an import or a query that found its session
ImportOrQueryRan ==
    lastCmd.op \in {"import", "imports3", "query"} /\ lastCmd.ok

\* C28 as stated: after a successful session create NAME, and until the next
\* command that changes the sessions, the session named NAME is the active
\* one, every other session is inactive, and the imports and queries that
\* follow address the table alb_logs_NAME
C28_CreateActivatesName ==
    (mode = "session" /\ lastSwitch.op = "create" /\ lastSwitch.ok)
        => /\ OnlyActive(lastSwitch.arg)
           /\ ImportOrQueryRan => usedTable = TableName(lastSwitch.arg)

\* C28 amended: after a successful session create NAME, and until the next
\* command that changes the sessions, the session named by the sanitized
\* form of NAME is the active one, every other session is inactive, its
\* table exists, and the imports and queries that follow address the table
\* alb_logs_ followed by the sanitized name
C28_CreateActivatesSanitizedName ==
    (mode = "session" /\ lastSwitch.op = "create" /\ lastSwitch.ok)
        => LET name == SanitizeSessionName(lastSwitch.arg).name
           IN  /\ OnlyActive(name)
               /\ TableName(name) \in tables
               /\ ImportOrQueryRan => usedTable = TableName(name)

C28_Witness ==
    /\ mode = "session" /\ lastSwitch = [op |-> "create", arg |-> <<"a", "-", "b">>,
                                         ok |-> TRUE]
    /\ sessions = << [name |-> <<"a">>, state |-> "inactive"],
                     [name |-> <<"a", "_", "b">>, state |-> "active"] >>
    /\ lastCmd.op = "import" /\ lastCmd.ok
    /\ usedTable = <<"alb_logs_", "a", "_", "b">>
    /\ imported = {<<"a", ".log">>}

\* C29: when import --source=s3 has reported success, every file of the
\* download directory whose name ends in .log or .log.gz has been copied
\* into the table of the active session, and the number of files reported
\* is the number of files copied
C29_S3ImportReportsWhatItImported ==
    (mode = "session" /\ lastCmd.op = "imports3" /\ lastCmd.ok)
        => /\ CountedFiles(dirFiles) \subseteq imported
           /\ fileCount = Cardinality(imported)

\* ------------------------------------------------------------- C31 .. C37
\* the growth of the counter since ParseLogs was called
CounterGrowth == totalEntriesProcessed - entriesBefore

\* C31: at every moment of a concurrent run the number of sink invocations
\* started is at most the growth of the counter, that growth is at most the
\* number of lines the producer has read so far, which is at most the
\* number of lines of the file, and no step makes the counter smaller
C31_CounterBounds ==
    /\ [](mode = "conc" =>
            /\ Len(sunk) <= CounterGrowth
            /\ CounterGrowth <= scanned
            /\ scanned <= Len(file.lines))
    /\ [][totalEntriesProcessed' >= totalEntriesProcessed]_vars

C31_Witness ==
    /\ mode = "conc" /\ mainPc = "sink" /\ numWorkers = MaxWorkers
    /\ entriesBefore > 0 /\ Len(file.lines) = MaxLines
    /\ Len(sunk) = 1 /\ CounterGrowth = 1 /\ scanned = MaxLines
    /\ prodPc # "done"

\* C32: when the concurrent ParseLogs with exactly one worker has returned,
\* the sequence of records it invoked processor with is the sequence the
\* sequential ParseLogs invokes its processor with for the same file and
\* filters, in the order of the lines
C32_OneWorkerSameSequenceAsSequential ==
    (mode = "conc" /\ mainPc = "returned" /\ numWorkers = 1)
        => /\ \A i, j \in 1..Len(sunk) : i < j => sunk[i] < sunk[j]
           /\ [i \in 1..Len(sunk) |-> Entries[LineAt(sunk[i])]]
                = RecordsOf(SeqSinkCalls(file, filters, 1), RawLines(file))

\* C33: after any sequence of session create, attach and kill commands,
\* whether they succeeded or failed, at most one row of the sessions table
\* is active and no two rows have the same name
C33_OneActiveDistinctNames ==
    mode = "session" =>
        /\ \A i, j \in 1..Len(sessions) :
               (sessions[i].state = "active" /\ sessions[j].state = "active")
                   => i = j
        /\ \A i, j \in 1..Len(sessions) :
               sessions[i].name = sessions[j].name => i = j

C33_Witness ==
    /\ mode = "session" /\ lastCmd.op = "attach" /\ lastCmd.ok
    /\ lastSwitch.op = "attach"
    /\ Len(sessions) = MaxSessions
    /\ sessions[1].state = "active"
    /\ \A i \in 2..Len(sessions) : sessions[i].state = "inactive"

\* C34: a session create whose CreateSession returns an error, for a name
\* that sanitizes to nothing or whose sanitized form is there already,
\* leaves the rows of the sessions table as they were, the active one
\* still active
C34_FailedCreateChangesNothing ==
    [][(lastCmd'.op = "create" /\ ~lastCmd'.ok) => sessions' = sessions]_vars

\* C35: a session attach with the very string a successful session create
\* was last given, the row of that create still being there, succeeds and
\* makes that row the active one; and a session attach with a name no row
\* has returns an error and leaves the rows as they were
C35_AttachFindsWhatCreateMade ==
    [][(mode = "session" /\ lastCmd'.op = "attach") =>
          LET n == lastCmd'.arg
          IN  /\ (lastSwitch.op = "create" /\ lastSwitch.ok /\ lastSwitch.arg = n)
                    => /\ lastCmd'.ok
                       /\ \E i \in 1..Len(sessions') :
                              /\ sessions'[i].name = SanitizeSessionName(n).name
                              /\ sessions'[i].state = "active"
              /\ (\A i \in 1..Len(sessions) : sessions[i].name # n)
                    => (~lastCmd'.ok /\ sessions' = sessions)]_vars

\* the lower-case letters and the digits of the alphabet of the names
LowerLetters == {"a", "b"}

Digits == {"1"}

\* C36: for every name a session create was given, SanitizeSessionName
\* returns an error exactly when the name is empty, and otherwise a name of
\* 1 to 63 characters that starts with a lower-case letter or an
\* underscore, holds only lower-case letters, digits and underscores, and
\* is returned unchanged when it is sanitized again
C36_SanitizedNameIsAnIdentifier ==
    (mode = "session" /\ lastCmd.op = "create") =>
        LET r == SanitizeSessionName(lastCmd.arg)
        IN  /\ r.err <=> lastCmd.arg = << >>
            /\ ~r.err =>
                  /\ Len(r.name) >= 1 /\ Len(r.name) <= 63
                  /\ r.name[1] \in LowerLetters \cup {"_"}
                  /\ \A i \in 1..Len(r.name) :
                         r.name[i] \in LowerLetters \cup Digits \cup {"_"}
                  /\ SanitizeSessionName(r.name) = [err |-> FALSE, name |-> r.name]
                  /\ lastCmd.ok => \E i \in 1..Len(sessions) : sessions[i].name = r.name

C36_Witness ==
    /\ mode = "session" /\ lastCmd = [op |-> "create", arg |-> DigitName, ok |-> TRUE]
    /\ Len(sessions) = 2
    /\ sessions[1].name = <<"a", "_", "b">>
    /\ Len(sessions[2].name) = 63 /\ sessions[2].name[1] = "_"
    /\ sessions[2].name[2] = "1" /\ sessions[2].name[63] = "a"

\* the headers NewTable has wrapped so far
WrappedHeaders == IF tablePc = "built" THEN DOMAIN headers ELSE 1..(col - 1)

\* C37: building a table ends without a crash for every number of columns
\* and every terminal width: no call of wrapText panics, every turn of its
\* loop leaves less text to write than the turn before, so that the call
\* returns, also for widths of zero or below, and every line of a wrapped
\* header is at most the column width long
C37_WrapTextReturnsWithinWidth ==
    /\ [](mode = "table" => tablePc # "panic")
    /\ [][(mode = "table" /\ tablePc = "wrapLoop" /\ tablePc' = "wrapLoop")
            => Len(text') < Len(text)]_vars
    /\ [](mode = "table" /\ tablePc \in {"wrapText", "wrapLoop", "built"} =>
            \A i \in WrappedHeaders :
                LET ls == SplitLines(headers[i], << >>)
                IN  \A k \in DOMAIN ls : Len(ls[k]) <= colWidths[i])

================================================================
